---- MODULE Spec2Model ----
(***************************************************************************)
(* A model of the schema registry (SchemaManager) of                       *)
(* opentelemetry-collector-config-schema: the embedded schema store, the   *)
(* per-manager cache of ComponentSchema objects, and the query operations  *)
(* that read the store through the cache.                                  *)
(*                                                                         *)
(* Strings are TLA+ strings; Go's strings package is modelled by the       *)
(* operators of the first section.  A ComponentSchema object lives in      *)
(* `heap`; a *ComponentSchema is an index into it (0 is nil).              *)
(***************************************************************************)
EXTENDS Integers, Sequences, FiniteSets, TLC

VARIABLES
    store,      \* the embedded file system below schemas/ (embed.FS, read-only)
    cache,      \* SchemaManager.cache: cache key -> *ComponentSchema
    heap,       \* the ComponentSchema objects allocated so far, by reference
    ret,        \* the call that has completed and not yet returned to the
                \* caller: operation, arguments, results
    firstGet,   \* first reference a successful get returned, per requested key
    pc,         \* concurrent gets: position of each goroutine in GetComponentSchema
    local,      \* concurrent gets: arguments and local variables of each goroutine
    mapWriter,  \* concurrent gets: the goroutine inside a write of sm.cache, or 0
    crashed     \* concurrent gets: the runtime has aborted the process

vars == <<store, cache, heap, ret, firstGet, pc, local, mapWriter, crashed>>

----------------------------------------------------------------------------
(* Go strings                                                              *)

\* Byte order of the characters that occur in the model's strings.
ByteOrder == " $-./0123456789:ABCDEFGHIJKLMNOPQRSTUVWXYZ[]_abcdefghijklmnopqrstuvwxyz{}"

CharAt(s, i) == SubSeq(s, i, i)

ByteTable == [ch \in {CharAt(ByteOrder, i) : i \in 1..Len(ByteOrder)} |->
                CHOOSE i \in 1..Len(ByteOrder) : CharAt(ByteOrder, i) = ch]

ByteOf(ch) == ByteTable[ch]

HasPrefix(s, p) == Len(p) <= Len(s) /\ SubSeq(s, 1, Len(p)) = p

HasSuffix(s, p) == Len(p) <= Len(s) /\ SubSeq(s, Len(s) - Len(p) + 1, Len(s)) = p

TrimSuffix(s, p) == IF HasSuffix(s, p) THEN SubSeq(s, 1, Len(s) - Len(p)) ELSE s

TrimPrefix(s, p) == IF HasPrefix(s, p) THEN SubSeq(s, Len(p) + 1, Len(s)) ELSE s

RECURSIVE IndexFrom(_, _, _)
\* Position of the first occurrence of sub in s at or after i, 0 when absent.
IndexFrom(s, sub, i) ==
    IF i + Len(sub) - 1 > Len(s) THEN 0
    ELSE IF SubSeq(s, i, i + Len(sub) - 1) = sub THEN i
    ELSE IndexFrom(s, sub, i + 1)

\* strings.Index, counting positions from 1: 0 when sub does not occur.
Index(s, sub) == IndexFrom(s, sub, 1)

\* strings.Contains
Contains(s, sub) == Index(s, sub) # 0

\* strings.SplitN(s, sep, 2): at most two parts, split at the first sep.
SplitN2(s, sep) ==
    LET i == Index(s, sep)
    IN  IF i = 0
        THEN <<s>>
        ELSE <<SubSeq(s, 1, i - 1), SubSeq(s, i + Len(sep), Len(s))>>

RECURSIVE StrLessFrom(_, _, _)
\* s < t, given that s and t agree before position i.
StrLessFrom(s, t, i) ==
    IF i > Len(t) THEN FALSE
    ELSE IF i > Len(s) THEN TRUE
    ELSE IF CharAt(s, i) = CharAt(t, i) THEN StrLessFrom(s, t, i + 1)
    ELSE ByteOf(CharAt(s, i)) < ByteOf(CharAt(t, i))

\* Go's s < t on strings: byte-wise lexical order.
StrLess(s, t) == StrLessFrom(s, t, 1)

RECURSIVE Least(_, _)
\* The least string of the set S \cup {m}.
Least(m, S) ==
    IF S = {}
    THEN m
    ELSE LET x == CHOOSE y \in S : TRUE
         IN  Least(IF StrLess(x, m) THEN x ELSE m, S \ {x})

RECURSIVE SortStrings(_)
\* The strings of a finite set as a sequence in byte-wise ascending order.
SortStrings(S) ==
    IF S = {}
    THEN <<>>
    ELSE LET m == Least(CHOOSE y \in S : TRUE, S)
         IN  <<m>> \o SortStrings(S \ {m})

Range(f) == {f[i] : i \in DOMAIN f}

----------------------------------------------------------------------------
(* JSON values, as encoding/json decodes them into interface{}             *)

JStr(s) == [k |-> "string", s |-> s]
\* A JSON number, as the rational num/den in lowest terms.
JNum(n, d) == [k |-> "number", num |-> n, den |-> d]
JInt(n) == JNum(n, 1)
JBool(b) == [k |-> "boolean", b |-> b]
JNull == [k |-> "null"]
JArr(a) == [k |-> "array", a |-> a]
JObj(m) == [k |-> "object", m |-> m]

NoMembers == [x \in {} |-> JNull]

Has(o, key) == o.k = "object" /\ key \in DOMAIN o.m

\* A byte slice: either the JSON text of one value, or text no decoder accepts.
JSONText(v) == [bytes |-> "json", doc |-> v]
Garbage == [bytes |-> "garbage"]

\* json.Unmarshal(data, &schemaData) with schemaData a map[string]interface{}:
\* a syntax error and a non-object value are errors, null leaves the map nil.
UnmarshalMap(data) ==
    IF data.bytes = "garbage" THEN [err |-> "syntax", value |-> JNull]
    ELSE IF data.doc.k = "object" THEN [err |-> "", value |-> data.doc]
    ELSE IF data.doc.k = "null" THEN [err |-> "", value |-> JNull]
    ELSE [err |-> "type", value |-> JNull]

\* json.Marshal of a map[string]interface{}: the text of the same value (a nil
\* map is written as null).
Marshal(v) == JSONText(v)

----------------------------------------------------------------------------
(* Component types                                                         *)

ComponentTypeReceiver == "receiver"
ComponentTypeProcessor == "processor"
ComponentTypeExporter == "exporter"
ComponentTypeExtension == "extension"
ComponentTypeConnector == "connector"

ComponentTypes ==
    {ComponentTypeReceiver, ComponentTypeProcessor, ComponentTypeExporter,
     ComponentTypeExtension, ComponentTypeConnector}

\* A plausible slip: every non-empty string taken for a component type.
isValidComponentType_Any(componentType) == componentType # ""

isValidComponentType(componentType) == componentType \in ComponentTypes

----------------------------------------------------------------------------
(* Schema artifacts of the embedded store                                  *)

DraftURI == "https://json-schema.org/draft/2020-12/schema"

TypeNode(t) == JObj([type |-> JStr(t)])

DescribedNode(t, d) == JObj([type |-> JStr(t), description |-> JStr(d)])

\* The schema derived from a record {host: string, port: integer}.
HostPortSchema ==
    JObj(("$schema" :> JStr(DraftURI)) @@
         [type |-> JStr("object"),
          title |-> JStr("Config Configuration"),
          properties |-> JObj([host |-> TypeNode("string"),
                               port |-> TypeNode("integer")]),
          required |-> JArr(<<JStr("host"), JStr("port")>>)])

\* The schema of a component whose settings were renamed: three descriptions
\* carry the deprecation marker, at the root, below an object, below an array.
DebugSchema ==
    JObj(("$schema" :> JStr(DraftURI)) @@
         [type |-> JStr("object"),
          properties |-> JObj(
             [verbosity |-> DescribedNode("string", "Deprecated: use level"),
              level |-> DescribedNode("string", "Level of detail"),
              sampling |-> JObj(
                 [type |-> JStr("object"),
                  properties |-> JObj(
                     [initial |-> DescribedNode("integer", "initial is DEPRECATED"),
                      after |-> TypeNode("integer")])]),
              targets |-> JObj(
                 [type |-> JStr("array"),
                  items |-> JObj(
                     [type |-> JStr("object"),
                      properties |-> JObj(
                         [url |-> DescribedNode("string", "[deprecated] use host"),
                          host |-> TypeNode("string")])])])])])

\* An older release of the first schema: one property, and a title that is
\* not a string.
HostOnlySchema ==
    JObj(("$schema" :> JStr(DraftURI)) @@
         [type |-> JStr("object"),
          title |-> JInt(1),
          properties |-> JObj([host |-> DescribedNode("string", "deprecated")])])

\* A JSON object that is no usable schema: its type is a number.
BrokenTypeSchema == JObj([type |-> JInt(7)])

File(name, data) == [name |-> name, isDir |-> FALSE, data |-> data]
Dir(name) == [name |-> name, isDir |-> TRUE, data |-> Garbage]

\* The store of the spec's example: two artifacts.
CleanListing ==
    {File("receiver_otlp.json", JSONText(HostPortSchema)),
     File("exporter_debug.json", JSONText(DebugSchema))}

\* The same artifacts among entries that are no artifact of a recognized
\* category, and artifacts that do not decode to a schema.
MessyListing ==
    CleanListing \cup
    {File("README.md", Garbage),
     File("notes.json", JSONText(HostPortSchema)),
     File("widget_otlp.json", JSONText(HostOnlySchema)),
     File("receiver_otlp.json.bak", JSONText(HostPortSchema)),
     File("exporter_otlp_v2.json", JSONText(HostPortSchema)),
     File("widget_debug.json", JSONText(BrokenTypeSchema)),
     File("receiver_bad.json", Garbage),
     File("exporter_bad.json", JSONText(JArr(<<>>))),
     File("receiver_debug.json", JSONText(JNull)),
     Dir("receiver_sub.json"),
     Dir("exporter_sub")}

\* An older release: fewer components, an older schema.
OldListing ==
    {File("receiver_otlp.json", JSONText(HostOnlySchema))}

Listings == {CleanListing, MessyListing}

OldVersion == "0.9.0"

\* The sets of released versions the store is built with; the first is the
\* one of the spec's example.
VersionSets ==
    {{"0.136.0", "0.138.0", "0.137.0"},
     {"0.9.0", "0.10.0", "0.138.0"},
     {"0.9.0", "0.10.0"}}

SchemaRoot == "schemas"

\* schemaPath := fmt.Sprintf("schemas/v%s", version)
SchemaPath(version) == SchemaRoot \o "/v" \o version

\* filepath.Join(schemaPath, filename), for elements without "." and "..".
JoinPath(dir, filename) == dir \o "/" \o filename

ListingOf(version, listing) == IF version = OldVersion THEN OldListing ELSE listing

\* The embedded file system: the bytes of every regular file by its path, and
\* the entries of every version directory, sorted by name as embed.FS keeps
\* them. The newest listing is in every version directory but the old
\* release's.
EmbeddedFS(versions, listing) ==
    [files |->
        [p \in UNION {{JoinPath(SchemaPath(v), e.name) :
                         e \in {x \in ListingOf(v, listing) : ~x.isDir}} :
                      v \in versions} |->
            LET v == CHOOSE w \in versions : HasPrefix(p, SchemaPath(w) \o "/")
                e == CHOOSE x \in ListingOf(v, listing) :
                        JoinPath(SchemaPath(v), x.name) = p
            IN  e.data],
     dirs |->
        [d \in {SchemaPath(v) : v \in versions} |->
            LET v == CHOOSE w \in versions : SchemaPath(w) = d
                names == SortStrings({e.name : e \in ListingOf(v, listing)})
            IN  [i \in 1..Len(names) |->
                    LET e == CHOOSE x \in ListingOf(v, listing) : x.name = names[i]
                    IN  [name |-> e.name, isDir |-> e.isDir]]]]

Stores == {EmbeddedFS(V, L) : V \in VersionSets, L \in Listings}

\* fs.ReadDir: the entries of a directory in the order of their names, or an
\* error.
ReadDir(fsys, path) ==
    IF path \in DOMAIN fsys.dirs
    THEN [err |-> FALSE, entries |-> fsys.dirs[path]]
    ELSE [err |-> TRUE, entries |-> <<>>]

\* fs.ReadFile: the bytes of a regular file, an error for anything else.
ReadFile(fsys, path) ==
    IF path \in DOMAIN fsys.files
    THEN [err |-> FALSE, data |-> fsys.files[path]]
    ELSE [err |-> TRUE, data |-> Garbage]

----------------------------------------------------------------------------
(* SchemaManager: loading and caching                                      *)

\* A nil *ComponentSchema.
NilRef == 0

NoSchema ==
    [Name |-> "", Type |-> "", Version |-> "", Schema |-> JNull, Description |-> ""]

\* cacheKey := fmt.Sprintf("%s_%s_%s", componentType, componentName, version)
CacheKey(componentType, componentName, version) ==
    componentType \o "_" \o componentName \o "_" \o version

\* filename := fmt.Sprintf("%s_%s.json", componentType, componentName)
SchemaFilename(componentType, componentName) ==
    componentType \o "_" \o componentName \o ".json"

\* A plausible slip: the version left out of the path of the artifact.
EmbeddedFilepath_FixedVersion(componentType, componentName, version) ==
    JoinPath(SchemaPath("0.138.0"), SchemaFilename(componentType, componentName))

EmbeddedFilepath(componentType, componentName, version) ==
    JoinPath(SchemaPath(version), SchemaFilename(componentType, componentName))

\* A plausible slip: the message names the file instead of type and name.
NotFoundError_Filename(componentType, componentName) ==
    "schema not found for component "
        \o SchemaFilename(componentType, componentName)

NotFoundError(componentType, componentName) ==
    "schema not found for component " \o componentType \o " " \o componentName

\* The text of the error json.Unmarshal returned.
UnmarshalErrorText(err) ==
    IF err = "syntax"
    THEN "invalid character"
    ELSE "json: cannot unmarshal into Go value of type map[string]interface {}"

ParseError(componentType, componentName, err) ==
    "failed to parse schema JSON for " \o componentType \o " " \o componentName
        \o ": " \o UnmarshalErrorText(err)

\* description: the schema's title when it is a string.
TitleOf(schemaData) ==
    IF Has(schemaData, "title") /\ schemaData.m["title"].k = "string"
    THEN schemaData.m["title"].s
    ELSE ""

\* loadSchemaFromFile: the new ComponentSchema, or an error. No state of the
\* manager is read or written.
loadSchemaFromFile(fsys, componentType, componentName, version) ==
    LET file == ReadFile(fsys, EmbeddedFilepath(componentType, componentName, version))
        parsed == UnmarshalMap(file.data)
    IN  IF file.err
        THEN [err |-> NotFoundError(componentType, componentName),
              schema |-> NoSchema]
        ELSE IF parsed.err # ""
        THEN [err |-> ParseError(componentType, componentName, parsed.err),
              schema |-> NoSchema]
        ELSE [err |-> "",
              schema |-> [Name |-> componentName,
                          Type |-> componentType,
                          Version |-> version,
                          Schema |-> parsed.value,
                          Description |-> TitleOf(parsed.value)]]

\* A plausible slip: the cache is never consulted, every call loads anew.
GetComponentSchema_NoCacheCheck(fsys, c, h, componentType, componentName, version) ==
    LET loaded == loadSchemaFromFile(fsys, componentType, componentName, version)
        key == CacheKey(componentType, componentName, version)
    IN  IF loaded.err # ""
        THEN [schema |-> NilRef, err |-> loaded.err, cache |-> c, heap |-> h,
              loaded |-> FALSE]
        ELSE [schema |-> Len(h) + 1, err |-> "",
              cache |-> [k \in DOMAIN c \cup {key} |->
                            IF k = key THEN Len(h) + 1 ELSE c[k]],
              heap |-> Append(h, loaded.schema), loaded |-> TRUE]

\* A plausible slip: the map is made anew when an entry is stored.
GetComponentSchema_ClearOnMiss(fsys, c, h, componentType, componentName, version) ==
    LET key == CacheKey(componentType, componentName, version)
        loaded == loadSchemaFromFile(fsys, componentType, componentName, version)
    IN  IF key \in DOMAIN c
        THEN [schema |-> c[key], err |-> "", cache |-> c, heap |-> h,
              loaded |-> FALSE]
        ELSE IF loaded.err # ""
        THEN [schema |-> NilRef, err |-> loaded.err, cache |-> c, heap |-> h,
              loaded |-> FALSE]
        ELSE [schema |-> Len(h) + 1, err |-> "",
              cache |-> (key :> (Len(h) + 1)),
              heap |-> Append(h, loaded.schema), loaded |-> TRUE]

\* A plausible slip: the loaded schema is returned but not stored.
GetComponentSchema_NoStore(fsys, c, h, componentType, componentName, version) ==
    LET key == CacheKey(componentType, componentName, version)
        loaded == loadSchemaFromFile(fsys, componentType, componentName, version)
    IN  IF key \in DOMAIN c
        THEN [schema |-> c[key], err |-> "", cache |-> c, heap |-> h,
              loaded |-> FALSE]
        ELSE IF loaded.err # ""
        THEN [schema |-> NilRef, err |-> loaded.err, cache |-> c, heap |-> h,
              loaded |-> FALSE]
        ELSE [schema |-> Len(h) + 1, err |-> "", cache |-> c,
              heap |-> Append(h, loaded.schema), loaded |-> TRUE]

\* A plausible slip: a failed load is remembered as a nil entry.
GetComponentSchema_NegativeEntry(fsys, c, h, componentType, componentName, version) ==
    LET key == CacheKey(componentType, componentName, version)
        loaded == loadSchemaFromFile(fsys, componentType, componentName, version)
    IN  IF key \in DOMAIN c
        THEN [schema |-> c[key], err |-> "", cache |-> c, heap |-> h,
              loaded |-> FALSE]
        ELSE IF loaded.err # ""
        THEN [schema |-> NilRef, err |-> loaded.err,
              cache |-> [k \in DOMAIN c \cup {key} |->
                            IF k = key THEN NilRef ELSE c[k]],
              heap |-> h, loaded |-> FALSE]
        ELSE [schema |-> Len(h) + 1, err |-> "",
              cache |-> [k \in DOMAIN c \cup {key} |->
                            IF k = key THEN Len(h) + 1 ELSE c[k]],
              heap |-> Append(h, loaded.schema), loaded |-> TRUE]

\* GetComponentSchema on a manager with cache c and heap h: the returned
\* reference and error, and the cache and heap after the call.
GetComponentSchema(fsys, c, h, componentType, componentName, version) ==
    LET key == CacheKey(componentType, componentName, version)
        loaded == loadSchemaFromFile(fsys, componentType, componentName, version)
    IN  IF key \in DOMAIN c
        THEN [schema |-> c[key], err |-> "", cache |-> c, heap |-> h,
              loaded |-> FALSE]
        ELSE IF loaded.err # ""
        THEN [schema |-> NilRef, err |-> loaded.err, cache |-> c, heap |-> h,
              loaded |-> FALSE]
        ELSE [schema |-> Len(h) + 1, err |-> "",
              cache |-> [k \in DOMAIN c \cup {key} |->
                            IF k = key THEN Len(h) + 1 ELSE c[k]],
              heap |-> Append(h, loaded.schema), loaded |-> TRUE]

----------------------------------------------------------------------------
(* Listing the artifacts of a version                                      *)

NoComponents == [t \in {} |-> <<>>]

\* components[componentType] = append(components[componentType], componentName)
AppendComponent(components, componentType, componentName) ==
    [t \in DOMAIN components \cup {componentType} |->
        IF t = componentType
        THEN (IF t \in DOMAIN components THEN components[t] ELSE <<>>)
                 \o <<componentName>>
        ELSE components[t]]

\* A plausible slip: the file name split at every underscore, the last part
\* taken for the name.
EntryParts_SplitAll(entryName) ==
    LET name == TrimSuffix(entryName, ".json")
        first == SplitN2(name, "_")
    IN  IF Len(first) = 2 /\ Contains(first[2], "_")
        THEN <<first[1], SplitN2(first[2], "_")[2]>>
        ELSE first

\* parts := strings.SplitN(strings.TrimSuffix(entry.Name(), ".json"), "_", 2)
EntryParts(entryName) == SplitN2(TrimSuffix(entryName, ".json"), "_")

\* One iteration of the loop over the directory entries.
ListEntry(components, entry) ==
    LET parts == EntryParts(entry.name)
    IN  IF entry.isDir \/ ~HasSuffix(entry.name, ".json")
        THEN components
        ELSE IF Len(parts) # 2
        THEN components
        ELSE IF ~isValidComponentType(parts[1])
        THEN components
        ELSE AppendComponent(components, parts[1], parts[2])

RECURSIVE ListEntries(_, _)
\* The loop over entries, first to last.
ListEntries(components, entries) ==
    IF entries = <<>>
    THEN components
    ELSE ListEntries(ListEntry(components, Head(entries)), Tail(entries))

ReadDirError == "failed to read embedded schema directory: file does not exist"

\* listEmbeddedComponents, which ListAvailableComponents returns unchanged.
listEmbeddedComponents(fsys, version) ==
    LET dir == ReadDir(fsys, SchemaPath(version))
    IN  IF dir.err
        THEN [err |-> ReadDirError, nil |-> TRUE, components |-> NoComponents]
        ELSE [err |-> "", nil |-> FALSE,
              components |-> ListEntries(NoComponents, dir.entries)]

ListAvailableComponents(fsys, version) == listEmbeddedComponents(fsys, version)

----------------------------------------------------------------------------
(* Decimal numerals                                                        *)

Digits == "0123456789"

IsDigit(ch) == Index(Digits, ch) # 0

DigitValue(ch) == Index(Digits, ch) - 1

RECURSIVE Itoa(_)
\* strconv.Itoa for n >= 0.
Itoa(n) ==
    IF n < 10
    THEN CharAt(Digits, n + 1)
    ELSE Itoa(n \div 10) \o CharAt(Digits, (n % 10) + 1)

IsNumeral(s) == Len(s) > 0 /\ \A i \in 1..Len(s) : IsDigit(CharAt(s, i))

RECURSIVE Atoi(_)
\* strconv.Atoi of a numeral.
Atoi(s) ==
    IF Len(s) = 0
    THEN 0
    ELSE 10 * Atoi(SubSeq(s, 1, Len(s) - 1)) + DigitValue(CharAt(s, Len(s)))

----------------------------------------------------------------------------
(* JSON text, as encoding/json writes and reads it                         *)
(*                                                                         *)
(* A text is the sequence of its lexemes: punctuation, string literals by  *)
(* the string they denote, number literals by their digits, and the three  *)
(* names. Indentation is white space between lexemes and is left out.      *)

Lexeme(t, s) == [t |-> t, s |-> s]
Punct(t) == Lexeme(t, "")

RECURSIVE TrimZeros(_)
\* The digits of a fraction without its trailing zeros.
TrimZeros(s) ==
    IF Len(s) > 0 /\ CharAt(s, Len(s)) = "0" THEN TrimZeros(SubSeq(s, 1, Len(s) - 1))
    ELSE s

\* Three digits for a number of thousandths.
Thousandths(n) ==
    CharAt(Digits, (n \div 100) + 1) \o CharAt(Digits, ((n \div 10) % 10) + 1)
       \o CharAt(Digits, (n % 10) + 1)

\* The literal encoding/json writes for a float64 that is a whole number or a
\* number of thousandths: no exponent, no trailing zeros.
NumberText(v) ==
    LET abs == IF v.num < 0 THEN 0 - v.num ELSE v.num
        sign == IF v.num < 0 THEN "-" ELSE ""
        scaled == (abs * 1000) \div v.den
    IN  IF v.den = 1 THEN sign \o Itoa(abs)
        ELSE sign \o Itoa(scaled \div 1000) \o "." \o
             TrimZeros(Thousandths(scaled % 1000))

RECURSIVE GCD(_, _)
GCD(a, b) == IF b = 0 THEN a ELSE GCD(b, a % b)

RECURSIVE Pow10(_)
Pow10(n) == IF n = 0 THEN 1 ELSE 10 * Pow10(n - 1)

\* Whether a text is a number literal of the form -?digits(.digits)?
IsNumberText(s) ==
    LET body == TrimPrefix(s, "-")
        parts == SplitN2(body, ".")
    IN  /\ IsNumeral(parts[1])
        /\ Len(parts) = 2 => IsNumeral(parts[2])

\* The number a literal denotes, in lowest terms.
NumberValue(s) ==
    LET body == TrimPrefix(s, "-")
        parts == SplitN2(body, ".")
        den == IF Len(parts) = 2 THEN Pow10(Len(parts[2])) ELSE 1
        num == IF Len(parts) = 2 THEN Atoi(parts[1]) * den + Atoi(parts[2])
               ELSE Atoi(parts[1])
        g == IF num = 0 THEN den ELSE GCD(num, den)
    IN  JNum((IF HasPrefix(s, "-") THEN 0 - num ELSE num) \div g, den \div g)

RECURSIVE Encode(_)
RECURSIVE EncodeMembers(_, _, _)
RECURSIVE EncodeElements(_, _)

\* The lexemes of a value: the members of an object in the order of their
\* keys, as encoding/json writes a map.
Encode(v) ==
    CASE v.k = "string" -> <<Lexeme("str", v.s)>>
      [] v.k = "number" -> <<Lexeme("num", NumberText(v))>>
      [] v.k = "boolean" -> <<Punct(IF v.b THEN "true" ELSE "false")>>
      [] v.k = "null" -> <<Punct("null")>>
      [] v.k = "array" -> <<Punct("[")>> \o EncodeElements(v.a, 1) \o <<Punct("]")>>
      [] v.k = "object" ->
           <<Punct("{")>> \o EncodeMembers(v.m, SortStrings(DOMAIN v.m), 1)
              \o <<Punct("}")>>

EncodeMembers(m, keys, i) ==
    IF i > Len(keys) THEN <<>>
    ELSE (IF i > 1 THEN <<Punct(",")>> ELSE <<>>)
         \o <<Lexeme("str", keys[i]), Punct(":")>> \o Encode(m[keys[i]])
         \o EncodeMembers(m, keys, i + 1)

EncodeElements(a, i) ==
    IF i > Len(a) THEN <<>>
    ELSE (IF i > 1 THEN <<Punct(",")>> ELSE <<>>) \o Encode(a[i])
         \o EncodeElements(a, i + 1)

\* json.MarshalIndent(v, "", "  ") of a map[string]interface{}; a nil map is
\* written as null.
MarshalIndent(v) == [bytes |-> "text", text |-> Encode(v)]

RECURSIVE Decode(_, _)
RECURSIVE DecodeMembers(_, _, _)
RECURSIVE DecodeElements(_, _, _)

DecodeFailed == [ok |-> FALSE, value |-> JNull, next |-> 0]
Decoded(value, next) == [ok |-> TRUE, value |-> value, next |-> next]

\* The value that starts at the i-th lexeme, and where the text goes on.
Decode(toks, i) ==
    IF i > Len(toks) THEN DecodeFailed
    ELSE CASE toks[i].t = "str" -> Decoded(JStr(toks[i].s), i + 1)
           [] toks[i].t = "num" ->
                IF IsNumberText(toks[i].s) THEN Decoded(NumberValue(toks[i].s), i + 1)
                ELSE DecodeFailed
           [] toks[i].t = "true" -> Decoded(JBool(TRUE), i + 1)
           [] toks[i].t = "false" -> Decoded(JBool(FALSE), i + 1)
           [] toks[i].t = "null" -> Decoded(JNull, i + 1)
           [] toks[i].t = "[" ->
                IF i < Len(toks) /\ toks[i + 1].t = "]" THEN Decoded(JArr(<<>>), i + 2)
                ELSE DecodeElements(toks, i + 1, <<>>)
           [] toks[i].t = "{" ->
                IF i < Len(toks) /\ toks[i + 1].t = "}"
                THEN Decoded(JObj(NoMembers), i + 2)
                ELSE DecodeMembers(toks, i + 1, NoMembers)
           [] OTHER -> DecodeFailed

\* The elements of an array from the i-th lexeme on, after those in acc.
DecodeElements(toks, i, acc) ==
    LET e == Decode(toks, i)
    IN  IF ~e.ok \/ e.next > Len(toks) THEN DecodeFailed
        ELSE IF toks[e.next].t = ","
        THEN DecodeElements(toks, e.next + 1, Append(acc, e.value))
        ELSE IF toks[e.next].t = "]"
        THEN Decoded(JArr(Append(acc, e.value)), e.next + 1)
        ELSE DecodeFailed

\* The members of an object from the i-th lexeme on, after those in acc; of
\* two members with one key the later one stays.
DecodeMembers(toks, i, acc) ==
    LET e == Decode(toks, i + 2)
    IN  IF i + 2 > Len(toks) \/ toks[i].t # "str" \/ toks[i + 1].t # ":"
        THEN DecodeFailed
        ELSE IF ~e.ok \/ e.next > Len(toks) THEN DecodeFailed
        ELSE IF toks[e.next].t = ","
        THEN DecodeMembers(toks, e.next + 1, (toks[i].s :> e.value) @@ acc)
        ELSE IF toks[e.next].t = "}"
        THEN Decoded(JObj((toks[i].s :> e.value) @@ acc), e.next + 1)
        ELSE DecodeFailed

\* json.Unmarshal(data, &v) with v an interface{}: the value of the text, or a
\* syntax error.
Unmarshal(data) ==
    LET d == Decode(data.text, 1)
    IN  IF data.bytes = "garbage" THEN [err |-> "syntax", value |-> JNull]
        ELSE IF data.bytes = "json" THEN [err |-> "", value |-> data.doc]
        ELSE IF d.ok /\ d.next = Len(data.text) + 1 THEN [err |-> "", value |-> d.value]
        ELSE [err |-> "syntax", value |-> JNull]

----------------------------------------------------------------------------
(* JSON Schema validation, as gojsonschema.Validate does it                *)

SchemaTypeNames ==
    {"string", "integer", "number", "boolean", "object", "array", "null"}

RECURSIVE SchemaCompiles(_)
\* Whether the schema loader accepts the document as a schema.
SchemaCompiles(node) ==
    /\ node.k = "object"
    /\ Has(node, "type") =>
          node.m["type"].k = "string" /\ node.m["type"].s \in SchemaTypeNames
    /\ Has(node, "properties") =>
          /\ node.m["properties"].k = "object"
          /\ \A p \in DOMAIN node.m["properties"].m :
                SchemaCompiles(node.m["properties"].m[p])
    /\ Has(node, "items") => SchemaCompiles(node.m["items"])
    /\ Has(node, "required") =>
          /\ node.m["required"].k = "array"
          /\ \A i \in DOMAIN node.m["required"].a :
                node.m["required"].a[i].k = "string"

\* Whether a JSON value is an instance of a JSON Schema primitive type.
IsOfType(value, typeName) ==
    \/ typeName = value.k
    \/ typeName = "integer" /\ value.k = "number" /\ value.den = 1

RootField == "(root)"

\* The field a violation below `path` cites.
ChildField(path, name) == IF path = RootField THEN name ELSE path \o "." \o name

RECURSIVE ValidateNode(_, _, _)
\* The violations of `value` against the schema `node`, each citing a field.
ValidateNode(node, value, path) ==
    IF Has(node, "type") /\ ~IsOfType(value, node.m["type"].s)
    THEN {[field |-> path, type |-> "invalid_type", property |-> ""]}
    ELSE
      (IF value.k = "object" /\ Has(node, "required")
       THEN {[field |-> path, type |-> "required",
              property |-> node.m["required"].a[i].s] :
                i \in {j \in DOMAIN node.m["required"].a :
                         node.m["required"].a[j].s \notin DOMAIN value.m}}
       ELSE {})
      \cup
      (IF value.k = "object" /\ Has(node, "properties")
       THEN UNION {ValidateNode(node.m["properties"].m[p], value.m[p],
                                ChildField(path, p)) :
                     p \in DOMAIN node.m["properties"].m \cap DOMAIN value.m}
       ELSE {})
      \cup
      (IF value.k = "array" /\ Has(node, "items")
       THEN UNION {ValidateNode(node.m["items"], value.a[i],
                                ChildField(path, Itoa(i - 1))) :
                     i \in DOMAIN value.a}
       ELSE {})

NoResult == [valid |-> FALSE, errors |-> {}]

\* gojsonschema.Validate(schemaLoader, documentLoader): an error when the
\* schema does not compile or the document does not decode, else a result.
Validate(schemaBytes, documentBytes) ==
    IF ~SchemaCompiles(schemaBytes.doc)
    THEN [err |-> "schema is invalid", nil |-> TRUE, result |-> NoResult]
    ELSE IF documentBytes.bytes = "garbage"
    THEN [err |-> "unexpected EOF", nil |-> TRUE, result |-> NoResult]
    ELSE LET errors == ValidateNode(schemaBytes.doc, documentBytes.doc, RootField)
         IN  [err |-> "", nil |-> FALSE,
              result |-> [valid |-> errors = {}, errors |-> errors]]

GetSchemaError(componentType, componentName, version, err) ==
    "failed to get schema for " \o componentType \o " " \o componentName
        \o " v" \o version \o ": " \o err

ValidationError(componentType, componentName, err) ==
    "validation failed for " \o componentType \o " " \o componentName
        \o ": " \o err

\* A plausible slip: the two loaders passed to the validator in the wrong
\* order, so that the candidate is taken for the schema.
ValidateComponentJSON_SwappedLoaders(fsys, c, h, componentType, componentName, version, jsonData) ==
    LET got == GetComponentSchema(fsys, c, h, componentType, componentName, version)
        checked == IF jsonData.bytes = "garbage"
                   THEN [err |-> "unexpected EOF", nil |-> TRUE, result |-> NoResult]
                   ELSE Validate(jsonData, Marshal(got.heap[got.schema].Schema))
    IN  IF got.err # ""
        THEN [result |-> NoResult, nil |-> TRUE,
              err |-> GetSchemaError(componentType, componentName, version, got.err),
              cache |-> got.cache, heap |-> got.heap, loaded |-> got.loaded,
              schema |-> got.schema]
        ELSE IF checked.err # ""
        THEN [result |-> NoResult, nil |-> TRUE,
              err |-> ValidationError(componentType, componentName, checked.err),
              cache |-> got.cache, heap |-> got.heap, loaded |-> got.loaded,
              schema |-> got.schema]
        ELSE [result |-> checked.result, nil |-> FALSE, err |-> "",
              cache |-> got.cache, heap |-> got.heap, loaded |-> got.loaded,
              schema |-> got.schema]

\* A plausible slip: the error of the validator dropped, its (empty) result
\* returned as if the document had been checked.
ValidateComponentJSON_DropError(fsys, c, h, componentType, componentName, version, jsonData) ==
    LET got == GetComponentSchema(fsys, c, h, componentType, componentName, version)
        checked == Validate(Marshal(got.heap[got.schema].Schema), jsonData)
    IN  IF got.err # ""
        THEN [result |-> NoResult, nil |-> TRUE,
              err |-> GetSchemaError(componentType, componentName, version, got.err),
              cache |-> got.cache, heap |-> got.heap, loaded |-> got.loaded,
              schema |-> got.schema]
        ELSE [result |-> [valid |-> checked.result.errors = {},
                          errors |-> checked.result.errors],
              nil |-> FALSE, err |-> "",
              cache |-> got.cache, heap |-> got.heap, loaded |-> got.loaded,
              schema |-> got.schema]

\* A plausible slip: the candidate validated before the error of the get
\* is looked at.
ValidateComponentJSON_ValidateFirst(fsys, c, h, componentType, componentName, version, jsonData) ==
    LET got == GetComponentSchema(fsys, c, h, componentType, componentName, version)
        schema == IF got.err # "" THEN JNull ELSE got.heap[got.schema].Schema
        checked == Validate(Marshal(schema), jsonData)
    IN  IF checked.err # ""
        THEN [result |-> NoResult, nil |-> TRUE,
              err |-> ValidationError(componentType, componentName, checked.err),
              cache |-> got.cache, heap |-> got.heap, loaded |-> got.loaded,
              schema |-> got.schema]
        ELSE IF got.err # ""
        THEN [result |-> NoResult, nil |-> TRUE,
              err |-> GetSchemaError(componentType, componentName, version, got.err),
              cache |-> got.cache, heap |-> got.heap, loaded |-> got.loaded,
              schema |-> got.schema]
        ELSE [result |-> checked.result, nil |-> FALSE, err |-> "",
              cache |-> got.cache, heap |-> got.heap, loaded |-> got.loaded,
              schema |-> got.schema]

\* ValidateComponentJSON: the validation result or an error, and the cache
\* and heap after the call.
ValidateComponentJSON(fsys, c, h, componentType, componentName, version, jsonData) ==
    LET got == GetComponentSchema(fsys, c, h, componentType, componentName, version)
        checked == Validate(Marshal(got.heap[got.schema].Schema), jsonData)
    IN  IF got.err # ""
        THEN [result |-> NoResult, nil |-> TRUE,
              err |-> GetSchemaError(componentType, componentName, version, got.err),
              cache |-> got.cache, heap |-> got.heap, loaded |-> got.loaded,
              schema |-> got.schema]
        ELSE IF checked.err # ""
        THEN [result |-> NoResult, nil |-> TRUE,
              err |-> ValidationError(componentType, componentName, checked.err),
              cache |-> got.cache, heap |-> got.heap, loaded |-> got.loaded,
              schema |-> got.schema]
        ELSE [result |-> checked.result, nil |-> FALSE, err |-> "",
              cache |-> got.cache, heap |-> got.heap, loaded |-> got.loaded,
              schema |-> got.schema]

\* GetComponentSchemaJSON writing the whole component, not its schema tree.
GetComponentSchemaJSON_Component(fsys, c, h, componentType, componentName, version) ==
    LET got == GetComponentSchema(fsys, c, h, componentType, componentName, version)
        component == got.heap[got.schema]
    IN  IF got.err # ""
        THEN [bytes |-> Garbage, nil |-> TRUE, err |-> got.err,
              cache |-> got.cache, heap |-> got.heap, loaded |-> got.loaded,
              schema |-> got.schema]
        ELSE [bytes |-> MarshalIndent(JObj(("name" :> JStr(component.Name)) @@
                                           ("schema" :> component.Schema))),
              nil |-> FALSE, err |-> "",
              cache |-> got.cache, heap |-> got.heap, loaded |-> got.loaded,
              schema |-> got.schema]

\* GetComponentSchemaJSON: the bytes of the schema, or the error of the get.
GetComponentSchemaJSON(fsys, c, h, componentType, componentName, version) ==
    LET got == GetComponentSchema(fsys, c, h, componentType, componentName, version)
    IN  IF got.err # ""
        THEN [bytes |-> Garbage, nil |-> TRUE, err |-> got.err,
              cache |-> got.cache, heap |-> got.heap, loaded |-> got.loaded,
              schema |-> got.schema]
        ELSE [bytes |-> MarshalIndent(got.heap[got.schema].Schema), nil |-> FALSE,
              err |-> "",
              cache |-> got.cache, heap |-> got.heap, loaded |-> got.loaded,
              schema |-> got.schema]

----------------------------------------------------------------------------
(* Versions of the store                                                   *)

RECURSIVE SplitAll(_, _)
\* strings.Split(s, sep)
SplitAll(s, sep) ==
    LET i == Index(s, sep)
    IN  IF i = 0
        THEN <<s>>
        ELSE <<SubSeq(s, 1, i - 1)>> \o SplitAll(SubSeq(s, i + Len(sep), Len(s)), sep)

\* major, minor and patch of a version identifier; a part that is absent or
\* no numeral counts as 0.
ParseVersion(version) ==
    LET parts == SplitAll(version, ".")
    IN  [i \in 1..3 |->
            IF i <= Len(parts) /\ IsNumeral(parts[i]) THEN Atoi(parts[i]) ELSE 0]

\* A plausible slip: versions compared as strings.
VersionLess_Lexical(a, b) == StrLess(a, b)

\* Semantic-version order: numeric on major, then minor, then patch.
VersionLess(a, b) ==
    LET x == ParseVersion(a)
        y == ParseVersion(b)
    IN  \/ x[1] < y[1]
        \/ x[1] = y[1] /\ x[2] < y[2]
        \/ x[1] = y[1] /\ x[2] = y[2] /\ x[3] < y[3]

\* allVersions: the version directories of the store, without the "v".
GetAllVersions(fsys) ==
    LET dirs == {d \in DOMAIN fsys.dirs : HasPrefix(d, SchemaRoot \o "/v")}
    IN  [err |-> "",
         versions |-> SortStrings({TrimPrefix(d, SchemaRoot \o "/v") : d \in dirs})]

RECURSIVE GreatestVersion(_, _)
\* The greatest of `best` and the versions of a list, under VersionLess.
GreatestVersion(best, versions) ==
    IF versions = <<>>
    THEN best
    ELSE GreatestVersion(IF VersionLess(best, Head(versions))
                         THEN Head(versions) ELSE best,
                         Tail(versions))

\* latestVersion: the greatest version of allVersions.
GetLatestVersion(fsys) ==
    LET all == GetAllVersions(fsys).versions
    IN  IF all = <<>>
        THEN [err |-> "no schema versions found", version |-> ""]
        ELSE [err |-> "", version |-> GreatestVersion(Head(all), Tail(all))]

----------------------------------------------------------------------------
(* Component names and deprecated fields                                   *)

InvalidTypeError(componentType) == "invalid component type: " \o componentType

\* componentNames: the names list(version) has under one category.
GetComponentNames(fsys, componentType, version) ==
    LET listed == ListAvailableComponents(fsys, version)
    IN  IF ~isValidComponentType(componentType)
        THEN [err |-> InvalidTypeError(componentType), nil |-> TRUE, names |-> <<>>]
        ELSE IF listed.err # ""
        THEN [err |-> listed.err, nil |-> TRUE, names |-> <<>>]
        ELSE [err |-> "", nil |-> FALSE,
              names |-> IF componentType \in DOMAIN listed.components
                        THEN listed.components[componentType] ELSE <<>>]

UpperCase == "ABCDEFGHIJKLMNOPQRSTUVWXYZ"
LowerCase == "abcdefghijklmnopqrstuvwxyz"

LowerTable ==
    [ch \in DOMAIN ByteTable |->
        IF Index(UpperCase, ch) # 0 THEN CharAt(LowerCase, Index(UpperCase, ch)) ELSE ch]

LowerChar(ch) == LowerTable[ch]

RECURSIVE ToLower(_)
\* strings.ToLower
ToLower(s) ==
    IF Len(s) = 0 THEN "" ELSE LowerChar(CharAt(s, 1)) \o ToLower(SubSeq(s, 2, Len(s)))

\* The deprecation convention: the description mentions "deprecated", in
\* any case.
IsDeprecatedDescription(description) ==
    Contains(ToLower(description), "deprecated")

IsDeprecatedNode(node) ==
    /\ Has(node, "description")
    /\ node.m["description"].k = "string"
    /\ IsDeprecatedDescription(node.m["description"].s)

PropertyPath(path, name) == IF path = "" THEN name ELSE path \o "." \o name

ItemsPath(path) == path \o "[]"

RECURSIVE DeprecatedPaths(_, _)
\* The paths of the deprecated fields at and below the fields of `node`.
DeprecatedPaths(node, path) ==
    (IF Has(node, "properties") /\ node.m["properties"].k = "object"
     THEN UNION {
            (IF IsDeprecatedNode(node.m["properties"].m[p])
             THEN {PropertyPath(path, p)} ELSE {})
            \cup DeprecatedPaths(node.m["properties"].m[p], PropertyPath(path, p)) :
               p \in DOMAIN node.m["properties"].m}
     ELSE {})
    \cup
    (IF Has(node, "items") THEN DeprecatedPaths(node.m["items"], ItemsPath(path)) ELSE {})

\* deprecatedFields: the paths of the deprecated fields of the schema of a
\* component, or the error of the get.
GetDeprecatedFields(fsys, c, h, componentType, componentName, version) ==
    LET got == GetComponentSchema(fsys, c, h, componentType, componentName, version)
    IN  IF got.err # ""
        THEN [fields |-> <<>>, nil |-> TRUE,
              err |-> GetSchemaError(componentType, componentName, version, got.err),
              cache |-> got.cache, heap |-> got.heap, loaded |-> got.loaded,
              schema |-> got.schema]
        ELSE [fields |-> SortStrings(DeprecatedPaths(got.heap[got.schema].Schema, "")),
              nil |-> FALSE, err |-> "",
              cache |-> got.cache, heap |-> got.heap, loaded |-> got.loaded,
              schema |-> got.schema]

----------------------------------------------------------------------------
(* The registry as a state machine: calls made one after the other         *)

\* Bound of the model: the ComponentSchema objects one manager allocates.
MaxObjects == 2

\* The arguments the calls are made with.
ReqTypes == {"receiver", "exporter", "widget"}
ReqNames == {"otlp", "debug", "bad", "sub"}
ReqVersions == {"0.138.0", "0.9.0"}

\* The keys the calls are made for: every combination of the arguments, and
\* two keys that are written the same way, "exporter_otlp_v2_0.138.0".
Requests ==
    (ReqTypes \X ReqNames \X ReqVersions)
        \cup {<<"exporter", "otlp_v2", "0.138.0">>,
              <<"exporter_otlp", "v2", "0.138.0">>}

GoodDocument == JSONText(JObj([host |-> JStr("x"), port |-> JInt(1)]))
WrongTypeDocument == JSONText(JObj([host |-> JStr("x"), port |-> JStr("1")]))
NestedDocument ==
    JSONText(JObj([port |-> JNum(3, 2),
                   sampling |-> JObj([initial |-> JStr("x")]),
                   targets |-> JArr(<<JObj([host |-> JStr("h")]),
                                      JObj([url |-> JBool(TRUE)])>>)]))

ReqDocuments == {GoodDocument, WrongTypeDocument, NestedDocument, Garbage}

NoCall == [op |-> "none"]

NoCache == [k \in {} |-> NilRef]
NoFirstGet == [k \in {} |-> NilRef]

Goroutines == 1..2

SeqInit ==
    /\ store \in Stores
    /\ cache = NoCache
    /\ heap = <<>>
    /\ ret = NoCall
    /\ firstGet = NoFirstGet
    /\ pc = [g \in Goroutines |-> "idle"]
    /\ local = [g \in Goroutines |-> [op |-> "none"]]
    /\ mapWriter = 0
    /\ crashed = FALSE

concVars == <<pc, local, mapWriter, crashed>>

\* firstGet after a call of GetComponentSchema that returned `ref`.
NoteGet(componentType, componentName, version, ref) ==
    IF ref = NilRef \/ <<componentType, componentName, version>> \in DOMAIN firstGet
    THEN firstGet
    ELSE [k \in DOMAIN firstGet \cup {<<componentType, componentName, version>>} |->
            IF k = <<componentType, componentName, version>> THEN ref ELSE firstGet[k]]

\* A call of GetComponentSchema.
Get(componentType, componentName, version) ==
    LET r == GetComponentSchema(store, cache, heap, componentType, componentName, version)
    IN  /\ ret = NoCall
        /\ Len(r.heap) <= MaxObjects
        /\ cache' = r.cache
        /\ heap' = r.heap
        /\ ret' = [op |-> "get", type |-> componentType, name |-> componentName,
                   version |-> version, got |-> r.schema, err |-> r.err,
                   loaded |-> r.loaded]
        /\ firstGet' = NoteGet(componentType, componentName, version, r.schema)
        /\ UNCHANGED <<store, concVars>>

\* A call of GetComponentSchemaJSON.
GetJSON(componentType, componentName, version) ==
    LET r == GetComponentSchemaJSON(store, cache, heap, componentType, componentName, version)
    IN  /\ ret = NoCall
        /\ Len(r.heap) <= MaxObjects
        /\ cache' = r.cache
        /\ heap' = r.heap
        /\ ret' = [op |-> "getJSON", type |-> componentType, name |-> componentName,
                   version |-> version, got |-> r.schema, err |-> r.err,
                   loaded |-> r.loaded, nil |-> r.nil, bytes |-> r.bytes]
        /\ firstGet' = NoteGet(componentType, componentName, version, r.schema)
        /\ UNCHANGED <<store, concVars>>

\* A call of ListAvailableComponents.
List(version) ==
    LET r == ListAvailableComponents(store, version)
    IN  /\ ret = NoCall
        /\ ret' = [op |-> "list", version |-> version, err |-> r.err,
                   nil |-> r.nil, components |-> r.components]
        /\ UNCHANGED <<store, cache, heap, firstGet, concVars>>

\* A call of ValidateComponentJSON.
ValidateJSON(componentType, componentName, version, jsonData) ==
    LET r == ValidateComponentJSON(store, cache, heap, componentType, componentName,
                                   version, jsonData)
    IN  /\ ret = NoCall
        /\ Len(r.heap) <= MaxObjects
        /\ cache' = r.cache
        /\ heap' = r.heap
        /\ ret' = [op |-> "validate", type |-> componentType, name |-> componentName,
                   version |-> version, document |-> jsonData, got |-> r.schema,
                   err |-> r.err, loaded |-> r.loaded, nil |-> r.nil,
                   result |-> r.result]
        /\ firstGet' = NoteGet(componentType, componentName, version, r.schema)
        /\ UNCHANGED <<store, concVars>>

\* A call of GetAllVersions.
AllVersions ==
    LET r == GetAllVersions(store)
    IN  /\ ret = NoCall
        /\ ret' = [op |-> "allVersions", err |-> r.err, versions |-> r.versions]
        /\ UNCHANGED <<store, cache, heap, firstGet, concVars>>

\* A call of GetLatestVersion.
LatestVersion ==
    LET r == GetLatestVersion(store)
    IN  /\ ret = NoCall
        /\ ret' = [op |-> "latestVersion", err |-> r.err, version |-> r.version]
        /\ UNCHANGED <<store, cache, heap, firstGet, concVars>>

\* A call of GetComponentNames.
ComponentNames(componentType, version) ==
    LET r == GetComponentNames(store, componentType, version)
    IN  /\ ret = NoCall
        /\ ret' = [op |-> "componentNames", type |-> componentType,
                   version |-> version, err |-> r.err, nil |-> r.nil,
                   names |-> r.names]
        /\ UNCHANGED <<store, cache, heap, firstGet, concVars>>

\* A call of GetDeprecatedFields.
DeprecatedFields(componentType, componentName, version) ==
    LET r == GetDeprecatedFields(store, cache, heap, componentType, componentName, version)
    IN  /\ ret = NoCall
        /\ Len(r.heap) <= MaxObjects
        /\ cache' = r.cache
        /\ heap' = r.heap
        /\ ret' = [op |-> "deprecatedFields", type |-> componentType,
                   name |-> componentName, version |-> version, got |-> r.schema,
                   err |-> r.err, loaded |-> r.loaded, nil |-> r.nil,
                   fields |-> r.fields]
        /\ firstGet' = NoteGet(componentType, componentName, version, r.schema)
        /\ UNCHANGED <<store, concVars>>

\* The caller takes the results; the manager is ready for the next call.
Return ==
    /\ ret # NoCall
    /\ ret' = NoCall
    /\ UNCHANGED <<store, cache, heap, firstGet, concVars>>

Next ==
    \/ Return
    \/ \E r \in Requests : Get(r[1], r[2], r[3])
    \/ \E r \in Requests : GetJSON(r[1], r[2], r[3])
    \/ \E v \in ReqVersions : List(v)
    \/ \E r \in Requests, d \in ReqDocuments : ValidateJSON(r[1], r[2], r[3], d)
    \/ AllVersions
    \/ LatestVersion
    \/ \E t \in ReqTypes, v \in ReqVersions : ComponentNames(t, v)
    \/ \E r \in Requests : DeprecatedFields(r[1], r[2], r[3])

Spec == SeqInit /\ [][Next]_vars

----------------------------------------------------------------------------
(* Properties of the registry                                              *)

\* The operations that call GetComponentSchema.
GetOps == {"get", "getJSON", "validate", "deprecatedFields"}

\* Whether the store holds a regular file {componentType}_{componentName}.json
\* in the directory of the version.
HasArtifact(componentType, componentName, version) ==
    /\ ("schemas/v" \o version) \in DOMAIN store.dirs
    /\ \E i \in DOMAIN store.dirs["schemas/v" \o version] :
          /\ store.dirs["schemas/v" \o version][i].name =
                componentType \o "_" \o componentName \o ".json"
          /\ ~store.dirs["schemas/v" \o version][i].isDir

\* The bytes of that file.
ArtifactBytes(componentType, componentName, version) ==
    store.files["schemas/v" \o version \o "/" \o componentType \o "_"
                    \o componentName \o ".json"]

\* C1: every successful GetComponentSchema call for a key returns the same
\* object (the same reference) as the first successful call for that key.
C1_SameObject ==
    (ret.op \in GetOps /\ ret.got # NilRef) =>
        /\ <<ret.type, ret.name, ret.version>> \in DOMAIN firstGet
        /\ ret.got = firstGet[<<ret.type, ret.name, ret.version>>]

\* A successful get that was answered from the cache: a second or later
\* successful call for its key.
C1_Witness ==
    /\ ret.op = "get"
    /\ ret.got # NilRef
    /\ ~ret.loaded
    /\ Len(heap) = 2

InstanceOf(value, typeName) ==
    CASE typeName = "integer" -> value.k = "number" /\ value.den = 1
      [] typeName = "number" -> value.k = "number"
      [] OTHER -> value.k = typeName

\* The fields of a validated document whose value is not of the type the
\* schema declares for the field.
MistypedFields(schema, document) ==
    IF Has(schema, "properties") /\ document.k = "object"
    THEN {f \in DOMAIN schema.m["properties"].m \cap DOMAIN document.m :
             /\ Has(schema.m["properties"].m[f], "type")
             /\ ~InstanceOf(document.m[f], schema.m["properties"].m[f].m["type"].s)}
    ELSE {}

\* C3: against the schema of {host: string, port: integer}, the document
\* {"host":"x","port":1} is valid without violations and {"host":"x","port":"1"}
\* is invalid with a violation citing port; a document with a field whose value
\* is not of the declared type is never reported valid.
C3_ValidateTypes ==
    (ret.op = "validate" /\ ret.got # NilRef /\ ret.document # Garbage) =>
        /\ (heap[ret.got].Schema = HostPortSchema /\ ret.document = GoodDocument) =>
              (~ret.nil /\ ret.result.valid /\ ret.result.errors = {})
        /\ (heap[ret.got].Schema = HostPortSchema /\ ret.document = WrongTypeDocument) =>
              /\ ~ret.nil
              /\ ~ret.result.valid
              /\ \E e \in ret.result.errors : e.field = "port"
        /\ \A f \in MistypedFields(heap[ret.got].Schema, ret.document.doc) :
              \/ ret.nil
              \/ ~ret.result.valid /\ \E e \in ret.result.errors : e.field = f

\* The document with the string "1" for the integer port has been validated
\* and rejected.
C3_Witness ==
    /\ ret.op = "validate"
    /\ ret.got # NilRef
    /\ heap[ret.got].Schema = HostPortSchema
    /\ ret.document = WrongTypeDocument
    /\ ~ret.nil
    /\ ~ret.result.valid

C5_GetErrorWrapped ==
    (ret.op = "validate" /\ ret.got = NilRef) =>
        /\ ret.nil
        /\ HasPrefix(ret.err, "failed to get schema for " \o ret.type \o " "
                                  \o ret.name \o " v" \o ret.version \o ": ")
        /\ HasSuffix(ret.err,
              IF HasArtifact(ret.type, ret.name, ret.version)
              THEN "failed to parse schema JSON for " \o ret.type \o " " \o ret.name
                      \o ": "
                      \o UnmarshalErrorText(
                            UnmarshalMap(ArtifactBytes(ret.type, ret.name, ret.version)).err)
              ELSE "schema not found for component " \o ret.type \o " " \o ret.name)

\* validate was called for a component without a schema, with a candidate
\* that does not decode.
C5_Witness ==
    /\ ret.op = "validate"
    /\ ret.got = NilRef
    /\ ret.document = Garbage
    /\ ret.nil

\* The (category, name) pairs of the artifacts of a version directory: the
\* regular files named {category}_{name}.json with a recognized category.
ArtifactsOf(version) ==
    LET entries == store.dirs["schemas/v" \o version]
    IN  UNION {
          {<<t, SubSeq(entries[i].name, Len(t) + 2, Len(entries[i].name) - 5)>> :
              t \in {u \in {"receiver", "processor", "exporter", "extension", "connector"} :
                       /\ ~entries[i].isDir
                       /\ Len(entries[i].name) >= Len(u) + 6
                       /\ HasPrefix(entries[i].name, u \o "_")
                       /\ HasSuffix(entries[i].name, ".json")}} :
          i \in DOMAIN entries}

\* C6: list(version) returns exactly the names of the artifacts of the
\* version directory, each once and under its category; for the store of
\* receiver_otlp.json and exporter_debug.json that is
\* {receiver: [otlp], exporter: [debug]}.
C6_ListIsArtifacts ==
    (ret.op = "list" /\ ret.err = "") =>
        /\ ~ret.nil
        /\ UNION {{<<t, ret.components[t][i]>> : i \in DOMAIN ret.components[t]} :
                    t \in DOMAIN ret.components} = ArtifactsOf(ret.version)
        /\ \A t \in DOMAIN ret.components :
              /\ ret.components[t] # <<>>
              /\ \A i, j \in DOMAIN ret.components[t] :
                    ret.components[t][i] = ret.components[t][j] => i = j
        /\ {store.dirs["schemas/v" \o ret.version][i].name :
                i \in DOMAIN store.dirs["schemas/v" \o ret.version]}
             = {"receiver_otlp.json", "exporter_debug.json"}
           => ret.components = [receiver |-> <<"otlp">>, exporter |-> <<"debug">>]

\* list has returned for a directory that holds, beside artifacts, files of
\* an unrecognized category, files without underscore, files that are no
\* .json and directories.
C6_Witness ==
    /\ ret.op = "list"
    /\ ret.err = ""
    /\ Len(store.dirs["schemas/v" \o ret.version]) > 10
    /\ "exporter" \in DOMAIN ret.components
    /\ \E i \in DOMAIN ret.components["exporter"] :
          ret.components["exporter"][i] = "otlp_v2"

\* The versions of the store: the names of its version directories without
\* the leading "v".
StoreVersions == {SubSeq(d, 10, Len(d)) : d \in DOMAIN store.dirs}

\* Major, minor and patch of the version identifiers the stores are built
\* with.
VersionNumbers ==
    [v \in {"0.9.0", "0.10.0", "0.136.0", "0.137.0", "0.138.0"} |->
        CASE v = "0.9.0" -> <<0, 9, 0>>
          [] v = "0.10.0" -> <<0, 10, 0>>
          [] v = "0.136.0" -> <<0, 136, 0>>
          [] v = "0.137.0" -> <<0, 137, 0>>
          [] v = "0.138.0" -> <<0, 138, 0>>]

\* a is not greater than b in the order of major, then minor, then patch.
NotNewer(a, b) ==
    LET x == VersionNumbers[a]
        y == VersionNumbers[b]
    IN  \/ x[1] < y[1]
        \/ x[1] = y[1] /\ x[2] < y[2]
        \/ x[1] = y[1] /\ x[2] = y[2] /\ x[3] <= y[3]

\* C7: latestVersion returns the version of the store that is greatest in
\* the numeric order of major, minor and patch; for the store of 0.136.0,
\* 0.138.0 and 0.137.0 that is 0.138.0.
C7_LatestIsSemverGreatest ==
    /\ ret.op = "latestVersion" =>
          /\ ret.err = ""
          /\ ret.version \in StoreVersions
          /\ \A v \in StoreVersions : NotNewer(v, ret.version)
          /\ StoreVersions = {"0.136.0", "0.138.0", "0.137.0"} => ret.version = "0.138.0"
    /\ ret.op = "allVersions" =>
          /\ ret.err = ""
          /\ Range(ret.versions) = StoreVersions

\* latestVersion has returned for a store in which the greatest version is
\* not the last one in the order of strings.
C7_Witness ==
    /\ ret.op = "latestVersion"
    /\ ret.version = "0.10.0"
    /\ "0.9.0" \in StoreVersions

\* C8: componentNames for a category outside the five recognized ones
\* returns no names and an error containing "invalid component type".
C8_InvalidComponentType ==
    (ret.op = "componentNames"
        /\ ret.type \notin {"receiver", "processor", "exporter", "extension", "connector"}) =>
        /\ ret.nil
        /\ ret.names = <<>>
        /\ Contains(ret.err, "invalid component type")

\* componentNames was called with an unrecognized category for a version
\* whose directory holds a file with that prefix.
C8_Witness ==
    /\ ret.op = "componentNames"
    /\ ret.type = "widget"
    /\ HasArtifact("widget", "otlp", ret.version)
    /\ ret.err # ""

\* Whether a schema node carries a description that mentions "deprecated"
\* in upper, lower or mixed case.
MarkedDeprecated(node) ==
    /\ Has(node, "description")
    /\ node.m["description"].k = "string"
    /\ \E w \in {"deprecated", "Deprecated", "DEPRECATED"} :
          Contains(node.m["description"].s, w)

\* The properties of a schema node: name -> node.
PropertiesOf(node) ==
    IF Has(node, "properties") /\ node.m["properties"].k = "object"
    THEN node.m["properties"].m
    ELSE NoMembers

\* The node whose properties lie below a field: the field itself for an
\* object, its items for an array; and the path of that node.
Below(node) == IF Has(node, "items") THEN node.m["items"] ELSE node
BelowPath(node, path) == IF Has(node, "items") THEN path \o "[]" ELSE path

\* The paths of the deprecated fields of a schema of at most two levels of
\* fields: name, name.name, name[].name.
DeprecatedOf(schema) ==
    {p \in DOMAIN PropertiesOf(schema) : MarkedDeprecated(PropertiesOf(schema)[p])}
    \cup
    UNION {{BelowPath(PropertiesOf(schema)[p], p) \o "." \o q :
              q \in {x \in DOMAIN PropertiesOf(Below(PropertiesOf(schema)[p])) :
                       MarkedDeprecated(PropertiesOf(Below(PropertiesOf(schema)[p]))[x])}} :
           p \in DOMAIN PropertiesOf(schema)}

\* C9: deprecatedFields returns the paths of exactly the fields of the
\* stored schema whose description is marked deprecated, each once; when the
\* schema cannot be obtained it returns an error containing "failed to get
\* schema" and no list.
C9_DeprecatedFields ==
    ret.op = "deprecatedFields" =>
        IF /\ HasArtifact(ret.type, ret.name, ret.version)
           /\ UnmarshalMap(ArtifactBytes(ret.type, ret.name, ret.version)).err = ""
        THEN /\ ~ret.nil
             /\ ret.err = ""
             /\ Range(ret.fields) = DeprecatedOf(
                   UnmarshalMap(ArtifactBytes(ret.type, ret.name, ret.version)).value)
             /\ \A i, j \in DOMAIN ret.fields : ret.fields[i] = ret.fields[j] => i = j
        ELSE /\ ret.nil
             /\ ret.fields = <<>>
             /\ Contains(ret.err, "failed to get schema")

\* deprecatedFields has returned the three deprecated fields of a schema:
\* one at the root, one below an object, one below an array.
C9_Witness ==
    /\ ret.op = "deprecatedFields"
    /\ ~ret.nil
    /\ Range(ret.fields) = {"verbosity", "sampling.initial", "targets[].url"}

----------------------------------------------------------------------------
(* Concurrent calls of GetComponentSchema on one manager                   *)
(*                                                                         *)
(* sm.cache is a plain Go map and GetComponentSchema takes no lock. The    *)
(* steps of a call are its read of the map, the load of the artifact, and  *)
(* its write of the map, which is not atomic: while one goroutine is       *)
(* inside a write, a read or a second write of the map by another          *)
(* goroutine is a data race. The Go runtime may detect it and abort the    *)
(* process ("concurrent map read and map write", "concurrent map writes"); *)
(* when it does not, the racing access goes through.                       *)

\* The keys the concurrent callers ask for.
ConcKeys == {<<"receiver", "otlp", "0.138.0">>, <<"exporter", "debug", "0.138.0">>,
             <<"receiver", "bad", "0.138.0">>}

NoLocal == [op |-> "none"]

ConcInit ==
    /\ store \in Stores
    /\ cache = NoCache
    /\ heap = <<>>
    /\ ret = NoCall
    /\ firstGet = NoFirstGet
    /\ pc = [g \in Goroutines |-> "idle"]
    /\ local = [g \in Goroutines |-> NoLocal]
    /\ mapWriter = 0
    /\ crashed = FALSE

seqVars == <<store, ret, firstGet>>

KeyOf(g) == CacheKey(local[g].type, local[g].name, local[g].version)

\* Goroutine g calls GetComponentSchema(key).
Call(g, key) ==
    /\ ~crashed
    /\ pc[g] = "idle"
    /\ pc' = [pc EXCEPT ![g] = "lookup"]
    /\ local' = [local EXCEPT ![g] = [op |-> "get", type |-> key[1], name |-> key[2],
                                      version |-> key[3], schema |-> NilRef,
                                      err |-> "", new |-> NilRef]]
    /\ UNCHANGED <<cache, heap, mapWriter, crashed, seqVars>>

\* g reads sm.cache[cacheKey] while no goroutine writes the map.
Lookup(g) ==
    /\ ~crashed
    /\ pc[g] = "lookup"
    /\ mapWriter = 0
    /\ IF KeyOf(g) \in DOMAIN cache
       THEN /\ local' = [local EXCEPT ![g].schema = cache[KeyOf(g)]]
            /\ pc' = [pc EXCEPT ![g] = "done"]
       ELSE /\ local' = local
            /\ pc' = [pc EXCEPT ![g] = "load"]
    /\ UNCHANGED <<cache, heap, mapWriter, crashed, seqVars>>

\* g reads sm.cache[cacheKey] while another goroutine is inside a write of
\* the map: the runtime aborts, or the read misses, or it finds the entry
\* that is being written.
RacyLookup(g) ==
    /\ ~crashed
    /\ pc[g] = "lookup"
    /\ mapWriter # 0
    /\ \/ /\ crashed' = TRUE
          /\ UNCHANGED <<pc, local>>
       \/ /\ KeyOf(g) \notin DOMAIN cache
          /\ pc' = [pc EXCEPT ![g] = "load"]
          /\ UNCHANGED <<local, crashed>>
       \/ /\ KeyOf(g) \in DOMAIN cache
          /\ local' = [local EXCEPT ![g].schema = cache[KeyOf(g)]]
          /\ pc' = [pc EXCEPT ![g] = "done"]
          /\ UNCHANGED crashed
       \/ /\ KeyOf(g) = KeyOf(mapWriter)
          /\ local' = [local EXCEPT ![g].schema = local[mapWriter].new]
          /\ pc' = [pc EXCEPT ![g] = "done"]
          /\ UNCHANGED crashed
    /\ UNCHANGED <<cache, heap, mapWriter, seqVars>>

\* g runs loadSchemaFromFile: a new ComponentSchema, or the error returned.
Load(g) ==
    LET loaded == loadSchemaFromFile(store, local[g].type, local[g].name,
                                     local[g].version)
    IN  /\ ~crashed
        /\ pc[g] = "load"
        /\ IF loaded.err # ""
           THEN /\ local' = [local EXCEPT ![g].err = loaded.err]
                /\ pc' = [pc EXCEPT ![g] = "done"]
                /\ heap' = heap
           ELSE /\ Len(heap) < MaxObjects
                /\ heap' = Append(heap, loaded.schema)
                /\ local' = [local EXCEPT ![g].new = Len(heap) + 1]
                /\ pc' = [pc EXCEPT ![g] = "store"]
        /\ UNCHANGED <<cache, mapWriter, crashed, seqVars>>

\* g enters the write sm.cache[cacheKey] = schema while no goroutine writes
\* the map.
BeginStore(g) ==
    /\ ~crashed
    /\ pc[g] = "store"
    /\ mapWriter = 0
    /\ mapWriter' = g
    /\ pc' = [pc EXCEPT ![g] = "storing"]
    /\ UNCHANGED <<cache, heap, local, crashed, seqVars>>

\* g enters its write while another goroutine is inside a write of the map:
\* the runtime aborts, or both writes go through, this one first.
RacyStore(g) ==
    /\ ~crashed
    /\ pc[g] = "store"
    /\ mapWriter # 0
    /\ \/ /\ crashed' = TRUE
          /\ UNCHANGED <<cache, local, pc>>
       \/ /\ cache' = [k \in DOMAIN cache \cup {KeyOf(g)} |->
                          IF k = KeyOf(g) THEN local[g].new ELSE cache[k]]
          /\ local' = [local EXCEPT ![g].schema = local[g].new]
          /\ pc' = [pc EXCEPT ![g] = "done"]
          /\ UNCHANGED crashed
    /\ UNCHANGED <<heap, mapWriter, seqVars>>

\* g completes its write of the map and returns the schema it loaded.
EndStore(g) ==
    /\ ~crashed
    /\ pc[g] = "storing"
    /\ cache' = [k \in DOMAIN cache \cup {KeyOf(g)} |->
                    IF k = KeyOf(g) THEN local[g].new ELSE cache[k]]
    /\ mapWriter' = 0
    /\ local' = [local EXCEPT ![g].schema = local[g].new]
    /\ pc' = [pc EXCEPT ![g] = "done"]
    /\ UNCHANGED <<heap, crashed, seqVars>>

\* The caller of g takes the results of the call.
Finish(g) ==
    /\ ~crashed
    /\ pc[g] = "done"
    /\ pc' = [pc EXCEPT ![g] = "idle"]
    /\ local' = [local EXCEPT ![g] = NoLocal]
    /\ UNCHANGED <<cache, heap, mapWriter, crashed, seqVars>>

ConcNext ==
    \E g \in Goroutines :
        \/ \E key \in ConcKeys : Call(g, key)
        \/ Lookup(g)
        \/ RacyLookup(g)
        \/ Load(g)
        \/ BeginStore(g)
        \/ RacyStore(g)
        \/ EndStore(g)
        \/ Finish(g)

ConcSpec == ConcInit /\ [][ConcNext]_vars

\* C10: concurrent gets for the same uncached key do not corrupt the cache:
\* every call completes, a call without error has returned a well-formed
\* ComponentSchema for its key, and once calls for a key have completed the
\* cache holds the entry for the key that every later get returns.
C10_ConcurrentGetsSafe ==
    /\ ~crashed
    /\ \A g \in Goroutines :
          (pc[g] = "done" /\ local[g].err = "") =>
              /\ local[g].schema \in 1..Len(heap)
              /\ heap[local[g].schema].Name = local[g].name
              /\ heap[local[g].schema].Type = local[g].type
              /\ heap[local[g].schema].Version = local[g].version
              /\ mapWriter = 0 => KeyOf(g) \in DOMAIN cache

\* Two goroutines are in calls for the same key that was not cached when
\* they looked it up, one of them inside its write of the map.
C10_Witness ==
    /\ \E g, h \in Goroutines :
          /\ g # h
          /\ pc[g] = "storing"
          /\ pc[h] \in {"lookup", "store"}
          /\ KeyOf(g) = KeyOf(h)

----------------------------------------------------------------------------
(* Configuration types, as reflect describes them to the schema generator  *)

\* reflect.StructTag: the value of each key the generator reads.
NoTag == [mapstructure |-> "", json |-> "", description |-> "", yaml |-> ""]

Basic(kind) == [Kind |-> kind, Name |-> kind, PkgPath |-> ""]
StringType == Basic("string")
IntType == Basic("int")
Int64Type == Basic("int64")
Uint8Type == Basic("uint8")
Float64Type == Basic("float64")
BoolType == Basic("bool")
\* time.Duration: a named int64.
DurationType == [Kind |-> "int64", Name |-> "Duration", PkgPath |-> "time"]
InterfaceType == [Kind |-> "interface", Name |-> "", PkgPath |-> ""]
FuncType == [Kind |-> "func", Name |-> "", PkgPath |-> ""]

PtrTo(t) == [Kind |-> "ptr", Name |-> "", PkgPath |-> "", Elem |-> t]
SliceOf(t) == [Kind |-> "slice", Name |-> "", PkgPath |-> "", Elem |-> t]
ArrayOf(t) == [Kind |-> "array", Name |-> "", PkgPath |-> "", Elem |-> t]
ChanOf(t) == [Kind |-> "chan", Name |-> "", PkgPath |-> "", Elem |-> t]
MapOf(k, v) == [Kind |-> "map", Name |-> "", PkgPath |-> "", Key |-> k, Elem |-> v]
StructOf(name, pkgPath, fields) ==
    [Kind |-> "struct", Name |-> name, PkgPath |-> pkgPath, Fields |-> fields]

\* A use of a declared type by its name: how a type refers to itself.
Named(name) == [Kind |-> "named", Name |-> name]

\* reflect.StructField
Field(name, tag, type) == [Name |-> name, Anonymous |-> FALSE, Tag |-> tag, Type |-> type]
\* An embedded field: its name is the name of its type.
Embedded(name, tag, type) ==
    [Name |-> name, Anonymous |-> TRUE, Tag |-> tag, Type |-> type]

Mapstructure(value) == [NoTag EXCEPT !.mapstructure = value]
Json(value) == [NoTag EXCEPT !.json = value]

\* reflect.StructField.IsExported: the name starts with an upper-case letter.
IsExported(field) == Index(UpperCase, CharAt(field.Name, 1)) # 0

\* time.Time: a struct of unexported fields.
TimeType ==
    StructOf("Time", "time", <<Field("wall", NoTag, Basic("uint64")),
                               Field("ext", NoTag, Int64Type)>>)

\* The declared types that refer to themselves, directly or through another.
Declared ==
    [Node |-> StructOf("Node", "main",
                       <<Field("Name", Mapstructure("name"), StringType),
                         Field("Next", Mapstructure("next"), PtrTo(Named("Node")))>>),
     Tree |-> StructOf("Tree", "main",
                       <<Field("Children", Mapstructure("children"),
                               SliceOf(Named("Tree")))>>),
     Graph |-> StructOf("Graph", "main",
                        <<Field("Edges", Mapstructure("edges"),
                                MapOf(StringType, Named("Graph")))>>),
     Ping |-> StructOf("Ping", "main",
                       <<Field("Pong", Mapstructure("pong"), PtrTo(Named("Pong")))>>),
     Pong |-> StructOf("Pong", "main",
                       <<Field("Ping", Mapstructure("ping"), SliceOf(Named("Ping")))>>)]

\* The reflect.Type a type expression denotes.
Resolve(t) == IF t.Kind = "named" THEN Declared[t.Name] ELSE t

\* reflect.Type.Elem, reflect.Type.Key, reflect.StructField.Type
Elem(t) == Resolve(t.Elem)
Key(t) == Resolve(t.Key)
FieldType(field) == Resolve(field.Type)
\* reflect.Type.NumField
NumField(t) == Len(t.Fields)

----------------------------------------------------------------------------
(* The schema generator: from a configuration type to its JSON schema      *)

\* Bound of the model: the depth of nested calls the goroutine stack holds.
\* A recursion that needs more ends the process with a stack overflow.
MaxDepth == 8

RECURSIVE analyzeStructFields(_, _, _, _)
RECURSIVE AnalyzeFrom(_, _, _, _, _)
RECURSIVE handleEmbeddedField(_, _, _, _)
RECURSIVE generatePropertySchema(_, _)
RECURSIVE generateTypeSchema(_, _)
RECURSIVE unwrapOptionalType(_, _)

\* The outcomes of the generator's functions: the values returned, or the
\* stack overflow that ends the process.
FieldsResult(properties, required, err) ==
    [overflow |-> FALSE, err |-> err, properties |-> properties, required |-> required]
PropertyResult(property, isRequired, err) ==
    [overflow |-> FALSE, err |-> err, property |-> property, isRequired |-> isRequired]
TypeResult(schema, err) == [overflow |-> FALSE, err |-> err, schema |-> schema]
StackOverflow == [overflow |-> TRUE, err |-> ""]

\* []string as a JSON value
StringList(names) == JArr([i \in 1..Len(names) |-> JStr(names[i])])

\* getFieldName: the mapstructure name, else the json name, else the
\* lower-cased field name.
getFieldName(field) ==
    LET tag == field.Tag.mapstructure
        parts == SplitAll(tag, ",")
        jsonTag == field.Tag.json
        jsonParts == SplitAll(jsonTag, ",")
    IN  IF tag # "" /\ Len(parts) > 0 /\ parts[1] # ""
        THEN parts[1]
        ELSE IF jsonTag # "" /\ Len(jsonParts) > 0 /\ jsonParts[1] # ""
                /\ jsonParts[1] # "-"
        THEN jsonParts[1]
        ELSE ToLower(field.Name)

\* A plausible slip: omitempty is looked for in the mapstructure tag only.
IsOmitEmpty_MapstructureOnly(field) == Contains(field.Tag.mapstructure, "omitempty")

\* The test for omitempty in generatePropertySchema.
IsOmitEmpty(field) ==
    \/ Contains(field.Tag.mapstructure, "omitempty")
    \/ Contains(field.Tag.json, "omitempty")

\* A plausible slip: no special case for time.Duration.
IsDuration_Never(t) == FALSE

\* typeName == "Duration" && strings.Contains(pkgPath, "time")
IsDuration(t) == t.Name = "Duration" /\ Contains(t.PkgPath, "time")

\* typeName == "Time" && strings.Contains(pkgPath, "time")
IsTime(t) == t.Name = "Time" /\ Contains(t.PkgPath, "time")

\* A plausible slip: the wrapper is taken for a struct like any other.
IsOptional_Never(t) == FALSE

\* strings.HasPrefix(typeName, "Optional") &&
\* strings.Contains(pkgPath, "configoptional")
IsOptional(t) == HasPrefix(t.Name, "Optional") /\ Contains(t.PkgPath, "configoptional")

DurationPattern == "^[0-9]+(ns|us|µs|ms|s|m|h)$"
DurationDescription == "Duration string (e.g., '1s', '5m', '1h')"

\* The schema of a time.Duration.
DurationSchema ==
    JObj([type |-> JStr("string"), pattern |-> JStr(DurationPattern),
          description |-> JStr(DurationDescription)])

IntKinds == {"int", "int8", "int16", "int32", "int64",
             "uint", "uint8", "uint16", "uint32", "uint64"}
FloatKinds == {"float32", "float64"}

\* The description generatePropertySchema adds from the description tag, or
\* from a yaml tag without a comma when no description is set.
WithDescription(field, property) ==
    LET desc == field.Tag.description
        yaml == field.Tag.yaml
        described == IF desc # "" THEN ("description" :> JStr(desc)) @@ property
                     ELSE property
    IN  IF yaml # "" /\ ~Contains(yaml, ",") /\ "description" \notin DOMAIN described
        THEN ("description" :> JStr(yaml)) @@ described
        ELSE described

\* The properties and required of an object schema, each left out when empty.
WithFields(schema, properties, required) ==
    (IF Cardinality(DOMAIN properties) > 0
     THEN [properties |-> JObj(properties)] ELSE NoMembers)
    @@ (IF Len(required) > 0 THEN [required |-> StringList(required)] ELSE NoMembers)
    @@ schema

\* The loop of analyzeStructFields after an embedded field was handled.
EmbeddedAdded(field, embedded) ==
    IF embedded.overflow THEN StackOverflow
    ELSE IF embedded.err # ""
    THEN FieldsResult(embedded.properties, embedded.required,
                      "failed to handle embedded field " \o field.Name
                         \o ": " \o embedded.err)
    ELSE embedded

\* The loop of analyzeStructFields after the property of a field was derived.
PropertyAdded(field, fieldName, properties, required, generated) ==
    IF generated.overflow THEN StackOverflow
    ELSE IF generated.err # ""
    THEN FieldsResult(properties, required,
                      "failed to generate property schema for field "
                         \o field.Name \o ": " \o generated.err)
    ELSE FieldsResult((fieldName :> generated.property) @@ properties,
                      IF generated.isRequired THEN Append(required, fieldName)
                      ELSE required,
                      "")

\* analyzeStructFields: one pass of the loop, for one field.
AnalyzeField(field, properties, required, depth) ==
    IF ~IsExported(field) THEN FieldsResult(properties, required, "")
    ELSE IF field.Anonymous
    THEN EmbeddedAdded(field, handleEmbeddedField(field, properties, required, depth + 1))
    ELSE IF getFieldName(field) = "" \/ getFieldName(field) = "-"
    THEN FieldsResult(properties, required, "")
    ELSE PropertyAdded(field, getFieldName(field), properties, required,
                       generatePropertySchema(field, depth + 1))

\* analyzeStructFields: the loop goes on after a pass unless the pass returned
\* an error or ended the process.
AnalyzeNext(structType, i, analyzed, depth) ==
    IF analyzed.overflow \/ analyzed.err # "" THEN analyzed
    ELSE AnalyzeFrom(structType, i + 1, analyzed.properties, analyzed.required, depth)

\* analyzeStructFields: the loop over the fields from the i-th on.
AnalyzeFrom(structType, i, properties, required, depth) ==
    IF i > NumField(structType)
    THEN FieldsResult(properties, required, "")
    ELSE AnalyzeNext(structType, i,
                     AnalyzeField(structType.Fields[i], properties, required, depth),
                     depth)

\* analyzeStructFields(structType, properties, required): the properties and
\* the required names after the fields of structType were added.
analyzeStructFields(structType, properties, required, depth) ==
    IF depth > MaxDepth THEN StackOverflow
    ELSE AnalyzeFrom(structType, 1, properties, required, depth)

\* A plausible slip: embedded fields are passed over.
handleEmbeddedField_Skip(field, properties, required, depth) ==
    FieldsResult(properties, required, "")

\* The property an embedded struct would be under a key of its own.
NestedAdded(field, properties, required, nested) ==
    IF nested.overflow THEN StackOverflow
    ELSE FieldsResult(
            (ToLower(field.Name) :>
                JObj(WithFields([type |-> JStr("object")], nested.properties,
                                nested.required))) @@ properties,
            required, nested.err)

\* A plausible slip: an embedded struct becomes a property of its own, with
\* its required names kept in the nested node.
handleEmbeddedField_Nested(field, properties, required, depth) ==
    LET declared == FieldType(field)
        fieldType == IF declared.Kind = "ptr" THEN Elem(declared) ELSE declared
    IN  IF depth > MaxDepth THEN StackOverflow
        ELSE IF fieldType.Kind # "struct" THEN FieldsResult(properties, required, "")
        ELSE NestedAdded(field, properties, required,
                         analyzeStructFields(fieldType, NoMembers, <<>>, depth + 1))

\* handleEmbeddedField: the fields of an embedded struct are added in place.
handleEmbeddedField(field, properties, required, depth) ==
    LET declared == FieldType(field)
        fieldType == IF declared.Kind = "ptr" THEN Elem(declared) ELSE declared
    IN  IF depth > MaxDepth THEN StackOverflow
        ELSE IF fieldType.Kind # "struct" THEN FieldsResult(properties, required, "")
        ELSE analyzeStructFields(fieldType, properties, required, depth + 1)

\* generatePropertySchema: the property returned after the description tags
\* were read.
Described(field, isRequired, property) ==
    PropertyResult(JObj(WithDescription(field, property)), isRequired, "")

\* generatePropertySchema: a slice or an array, its item schema derived.
ArrayProperty(field, isRequired, item) ==
    IF item.overflow THEN StackOverflow
    ELSE IF item.err # ""
    THEN PropertyResult(JNull, FALSE,
                        "failed to generate array item schema: " \o item.err)
    ELSE Described(field, isRequired, [type |-> JStr("array"), items |-> item.schema])

\* generatePropertySchema: a map with string keys, its value schema derived.
MapProperty(field, isRequired, value) ==
    IF value.overflow THEN StackOverflow
    ELSE IF value.err = "" /\ Cardinality(DOMAIN value.schema.m) > 0
    THEN Described(field, isRequired,
                   [type |-> JStr("object"), additionalProperties |-> value.schema])
    ELSE Described(field, isRequired,
                   [type |-> JStr("object"), additionalProperties |-> JBool(TRUE)])

\* generatePropertySchema: an optional wrapper, unwrapped.
OptionalProperty(field, isRequired, unwrapped) ==
    IF unwrapped.overflow THEN StackOverflow
    ELSE IF unwrapped.err = "" THEN PropertyResult(unwrapped.schema, FALSE, "")
    ELSE Described(field, isRequired, [type |-> JStr("object")])

\* generatePropertySchema: a struct, its fields analyzed.
StructProperty(field, isRequired, nested) ==
    IF nested.overflow THEN StackOverflow
    ELSE IF nested.err # ""
    THEN PropertyResult(JNull, FALSE,
                        "failed to analyze struct fields: " \o nested.err)
    ELSE Described(field, isRequired,
                   WithFields([type |-> JStr("object")], nested.properties,
                              nested.required))

\* generatePropertySchema: the switch on the kind of the field's type.
PropertyOfKind(field, fieldType, isRequired, depth) ==
    CASE fieldType.Kind = "string" ->
           Described(field, isRequired, [type |-> JStr("string")])
      [] fieldType.Kind \in IntKinds ->
           Described(field, isRequired, [type |-> JStr("integer")])
      [] fieldType.Kind \in FloatKinds ->
           Described(field, isRequired, [type |-> JStr("number")])
      [] fieldType.Kind = "bool" ->
           Described(field, isRequired, [type |-> JStr("boolean")])
      [] fieldType.Kind \in {"slice", "array"} ->
           ArrayProperty(field, isRequired,
                         generateTypeSchema(Elem(fieldType), depth + 1))
      [] fieldType.Kind = "map" ->
           IF Key(fieldType).Kind # "string"
           THEN Described(field, isRequired,
                          [type |-> JStr("object"),
                           additionalProperties |-> JBool(TRUE)])
           ELSE MapProperty(field, isRequired,
                            generateTypeSchema(Elem(fieldType), depth + 1))
      [] fieldType.Kind = "struct" ->
           IF IsTime(fieldType)
           THEN Described(field, isRequired,
                          [type |-> JStr("string"), format |-> JStr("date-time")])
           ELSE IF IsOptional(fieldType)
           THEN OptionalProperty(field, isRequired,
                                 unwrapOptionalType(fieldType, depth + 1))
           ELSE StructProperty(field, isRequired,
                               analyzeStructFields(fieldType, NoMembers, <<>>,
                                                   depth + 1))
      [] fieldType.Kind = "interface" ->
           Described(field, isRequired,
                     [type |-> JStr("object"), additionalProperties |-> JBool(TRUE)])
      [] OTHER -> Described(field, isRequired, [type |-> JStr("object")])

\* generatePropertySchema: the part after the pointer was stripped and the
\* omitempty marker was looked for.
PropertyOf(field, fieldType, isRequired, depth) ==
    IF IsDuration(fieldType) THEN PropertyResult(DurationSchema, isRequired, "")
    ELSE PropertyOfKind(field, fieldType, isRequired, depth)

\* generatePropertySchema(field): the property of the field, and whether the
\* field is required.
generatePropertySchema(field, depth) ==
    IF depth > MaxDepth THEN StackOverflow
    ELSE PropertyOf(field,
                    IF FieldType(field).Kind = "ptr" THEN Elem(FieldType(field))
                    ELSE FieldType(field),
                    FieldType(field).Kind # "ptr" /\ ~IsOmitEmpty(field),
                    depth)

\* generateTypeSchema: a slice or an array, its item schema derived.
ArrayType(item) ==
    IF item.overflow THEN StackOverflow
    ELSE IF item.err = ""
    THEN TypeResult(JObj([type |-> JStr("array"), items |-> item.schema]), "")
    ELSE TypeResult(JObj([type |-> JStr("array")]), "")

\* generateTypeSchema: a struct, its fields analyzed.
StructType(nested) ==
    IF nested.overflow THEN StackOverflow
    ELSE IF nested.err = ""
    THEN TypeResult(JObj(WithFields([type |-> JStr("object")], nested.properties,
                                    nested.required)), "")
    ELSE TypeResult(JObj([type |-> JStr("object")]), "")

\* generateTypeSchema: the part after the pointer was stripped.
TypeOf(t, depth) ==
    IF IsDuration(t) THEN TypeResult(DurationSchema, "")
    ELSE CASE t.Kind = "string" -> TypeResult(JObj([type |-> JStr("string")]), "")
           [] t.Kind \in IntKinds -> TypeResult(JObj([type |-> JStr("integer")]), "")
           [] t.Kind \in FloatKinds -> TypeResult(JObj([type |-> JStr("number")]), "")
           [] t.Kind = "bool" -> TypeResult(JObj([type |-> JStr("boolean")]), "")
           [] t.Kind \in {"slice", "array"} ->
                ArrayType(generateTypeSchema(Elem(t), depth + 1))
           [] t.Kind = "map" ->
                TypeResult(JObj([type |-> JStr("object"),
                                 additionalProperties |-> JBool(TRUE)]), "")
           [] t.Kind = "struct" ->
                IF IsTime(t)
                THEN TypeResult(JObj([type |-> JStr("string"),
                                      format |-> JStr("date-time")]), "")
                ELSE StructType(analyzeStructFields(t, NoMembers, <<>>, depth + 1))
           [] t.Kind = "interface" ->
                TypeResult(JObj([type |-> JStr("object"),
                                 additionalProperties |-> JBool(TRUE)]), "")
           [] OTHER -> TypeResult(JObj([type |-> JStr("object")]), "")

\* generateTypeSchema(t): the schema of a type that is not a field.
generateTypeSchema(declared, depth) ==
    IF depth > MaxDepth THEN StackOverflow
    ELSE TypeOf(IF declared.Kind = "ptr" THEN Elem(declared) ELSE declared, depth)

\* A plausible slip: the wrapper is never opened.
unwrapOptionalType_Opaque(optionalType, depth) ==
    TypeResult(JObj([type |-> JStr("object")]), "")

\* The first of a non-empty set of field indexes.
FirstIndex(S) == CHOOSE i \in S : \A j \in S : i <= j

\* unwrapOptionalType: the type of a field of the wrapper, a pointer stripped.
PayloadType(optionalType, i) ==
    IF FieldType(optionalType.Fields[i]).Kind = "ptr"
    THEN Elem(FieldType(optionalType.Fields[i]))
    ELSE FieldType(optionalType.Fields[i])

\* unwrapOptionalType: the fields of the wrapper named value.
ValueFields(optionalType) ==
    {i \in 1..NumField(optionalType) : optionalType.Fields[i].Name = "value"}

\* unwrapOptionalType: the exported fields of the wrapper, other than _ and
\* flavor, that hold a struct with fields.
HoldingFields(optionalType) ==
    {i \in 1..NumField(optionalType) :
        /\ IsExported(optionalType.Fields[i])
        /\ optionalType.Fields[i].Name \notin {"_", "flavor"}
        /\ PayloadType(optionalType, i).Kind = "struct"
        /\ NumField(PayloadType(optionalType, i)) > 0}

\* unwrapOptionalType: the schema of the type the wrapper holds, found in the
\* field named value, else in the first exported field holding a struct with
\* fields; a plain object schema when there is neither.
unwrapOptionalType(optionalType, depth) ==
    IF depth > MaxDepth THEN StackOverflow
    ELSE IF ValueFields(optionalType) = {} /\ HoldingFields(optionalType) = {}
    THEN TypeResult(JObj([type |-> JStr("object")]), "")
    ELSE generateTypeSchema(
            PayloadType(optionalType,
                        IF ValueFields(optionalType) # {}
                        THEN FirstIndex(ValueFields(optionalType))
                        ELSE FirstIndex(HoldingFields(optionalType))),
            depth + 1)

\* A plausible slip: the title is the bare type name.
RootSchema_BareTitle(configType) ==
    ("$schema" :> JStr(DraftURI))
    @@ [type |-> JStr("object"),
        title |-> JStr(configType.Name),
        properties |-> JObj(NoMembers)]

\* The root document before the fields are analyzed.
RootSchema(configType) ==
    ("$schema" :> JStr(DraftURI))
    @@ [type |-> JStr("object"),
        title |-> JStr(configType.Name \o " Configuration"),
        properties |-> JObj(NoMembers)]

\* generateJSONSchema: the document after the fields were analyzed.
RootDocument(configType, analyzed) ==
    IF analyzed.overflow THEN StackOverflow
    ELSE IF analyzed.err # "" THEN TypeResult(JNull, analyzed.err)
    ELSE TypeResult(
            JObj((IF Len(analyzed.required) > 0
                  THEN [required |-> StringList(analyzed.required)]
                  ELSE NoMembers)
                 @@ [properties |-> JObj(analyzed.properties)]
                 @@ RootSchema(configType)),
            "")

\* The type generateJSONSchema analyzes: the type of config, a pointer stripped.
ConfigType(config) ==
    IF Resolve(config).Kind = "ptr" THEN Elem(Resolve(config)) ELSE Resolve(config)

\* generateJSONSchema(config): the schema document of the type of config.
generateJSONSchema(config) ==
    RootDocument(ConfigType(config),
                 analyzeStructFields(ConfigType(config), NoMembers, <<>>, 1))

----------------------------------------------------------------------------
(* The configuration types the generator is run on                         *)

ConfigOptionalPkg == "go.opentelemetry.io/collector/config/configoptional"

\* DatabaseConfig of the test component.
DatabaseConfig ==
    StructOf("DatabaseConfig", "main",
             <<Field("Host", Mapstructure("host"), StringType),
               Field("Port", Mapstructure("port"), IntType),
               Field("Username", Mapstructure("username"), StringType),
               Field("Password", Mapstructure("password"), StringType),
               Field("Timeout", Mapstructure("timeout"), DurationType)>>)

\* confighttp.ServerConfig, cut to three fields.
ServerConfig ==
    StructOf("ServerConfig", "go.opentelemetry.io/collector/config/confighttp",
             <<Field("Endpoint", Mapstructure("endpoint"), StringType),
               Field("MaxRequestBodySize", Mapstructure("max_request_body_size,omitempty"),
                     Int64Type),
               Field("IdleTimeout", Mapstructure("idle_timeout"), DurationType)>>)

\* configoptional.Optional[T]: the payload in the unexported field value.
OptionalOf(name, payload) ==
    StructOf("Optional[" \o name \o "]", ConfigOptionalPkg,
             <<Field("value", NoTag, payload), Field("flavor", NoTag, IntType)>>)

\* A wrapper without a field named value: the payload is in an exported field
\* that follows a field that holds no struct.
OptionalBox ==
    StructOf("OptionalBox", ConfigOptionalPkg,
             <<Field("flavor", NoTag, IntType),
               Field("Enabled", NoTag, BoolType),
               Field("Empty", NoTag, StructOf("Empty", "main", <<>>)),
               Field("Payload", NoTag, PtrTo(DatabaseConfig)),
               Field("Other", NoTag, ServerConfig)>>)

\* A wrapper in which no payload can be located.
OptionalFlag ==
    StructOf("OptionalFlag", ConfigOptionalPkg,
             <<Field("flavor", NoTag, IntType), Field("Enabled", NoTag, BoolType)>>)

\* component.Config: an interface.
ComponentConfig ==
    [Kind |-> "interface", Name |-> "Config",
     PkgPath |-> "go.opentelemetry.io/collector/component"]

\* TestReceiverConfig of the test component.
TestReceiverConfig ==
    StructOf("TestReceiverConfig", "main",
             <<Field("Database", Mapstructure("database"), DatabaseConfig),
               Field("HTTPServer", Mapstructure("http_server"),
                     OptionalOf("confighttp.ServerConfig", ServerConfig)),
               Field("CollectionInterval", Mapstructure("collection_interval"),
                     DurationType),
               Field("BatchSize", Mapstructure("batch_size"), IntType),
               Field("EnableTracing", Mapstructure("enable_tracing"), BoolType),
               Field("LogLevel", Mapstructure("log_level,omitempty"), StringType),
               Field("IncludeTables", Mapstructure("include_tables,omitempty"),
                     SliceOf(StringType)),
               Field("TableAliases", Mapstructure("table_aliases,omitempty"),
                     MapOf(StringType, StringType)),
               Embedded("Config", Mapstructure(",squash"), ComponentConfig)>>)

\* A mixin with a required and an optional field, and a mixin of its own.
TimeoutSettings ==
    StructOf("TimeoutSettings", "main",
             <<Field("Timeout", Mapstructure("timeout"), DurationType)>>)
ClientSettings ==
    StructOf("ClientSettings", "main",
             <<Field("Endpoint", Mapstructure("endpoint"), StringType),
               Field("Compression", Mapstructure("compression,omitempty"), StringType),
               Field("secret", NoTag, StringType),
               Embedded("TimeoutSettings", Mapstructure(",squash"), TimeoutSettings)>>)

\* A configuration with a mixin, a wrapper, a suppressed field and an
\* unexported one.
ExporterConfig ==
    StructOf("ExporterConfig", "main",
             <<Embedded("ClientSettings", Mapstructure(",squash"), ClientSettings),
               Field("Queue", Mapstructure("sending_queue"),
                     OptionalOf("main.DatabaseConfig", DatabaseConfig)),
               Field("Internal", Mapstructure("-"), StringType),
               Field("Hidden", Json("-"), StringType),
               Field("state", Mapstructure("state"), IntType),
               Field("Retries", NoTag, PtrTo(IntType))>>)

\* A configuration none of whose fields is required.
AllOptionalConfig ==
    StructOf("AllOptionalConfig", "main",
             <<Field("LogLevel", Mapstructure("log_level,omitempty"), StringType),
               Field("Retries", Mapstructure("retries"), PtrTo(IntType)),
               Field("Server", Mapstructure("server"),
                     OptionalOf("confighttp.ServerConfig", ServerConfig))>>)

\* Two fields of one composite with the same external name.
SameNameConfig ==
    StructOf("SameNameConfig", "main",
             <<Field("Host", Mapstructure("host"), StringType),
               Field("Hostname", Mapstructure("host"), StringType),
               Field("Server", Mapstructure("server"), AllOptionalConfig)>>)

\* A field with the external name of a field of the mixin, in a nested
\* composite.
MixinClashConfig ==
    StructOf("MixinClashConfig", "main",
             <<Field("Client", Mapstructure("client"),
                     StructOf("Client", "main",
                              <<Embedded("ClientSettings", Mapstructure(",squash"),
                                         ClientSettings),
                                Field("Endpoint", Mapstructure("endpoint"),
                                      StringType)>>))>>)

\* The types of the fields the generator is probed with.
FieldTypes ==
    {StringType, IntType, Uint8Type, Float64Type, BoolType, DurationType, TimeType,
     InterfaceType, FuncType, ChanOf(IntType),
     PtrTo(StringType), PtrTo(DurationType), PtrTo(PtrTo(StringType)),
     SliceOf(StringType), SliceOf(DurationType), ArrayOf(IntType),
     SliceOf(PtrTo(DatabaseConfig)), SliceOf(MapOf(StringType, DurationType)),
     MapOf(StringType, StringType), MapOf(StringType, DurationType),
     MapOf(IntType, StringType), MapOf(StringType, DatabaseConfig),
     DatabaseConfig, PtrTo(DatabaseConfig), ClientSettings,
     OptionalOf("confighttp.ServerConfig", ServerConfig),
     OptionalOf("*main.DatabaseConfig", PtrTo(DatabaseConfig)),
     OptionalOf("time.Duration", DurationType),
     OptionalOf("map[string]string", MapOf(StringType, StringType)),
     MapOf(StringType, MapOf(StringType, IntType)),
     SliceOf(OptionalOf("confighttp.ServerConfig", ServerConfig)),
     SliceOf(ChanOf(IntType)),
     PtrTo(OptionalOf("confighttp.ServerConfig", ServerConfig)),
     OptionalBox, OptionalFlag}

\* The tags of the fields the generator is probed with.
FieldTags ==
    {NoTag,
     Mapstructure("host"), Mapstructure("host,omitempty"), Mapstructure("-"),
     Mapstructure(",squash"), Mapstructure("omitempty_hosts"),
     Json("alias"), Json("alias,omitempty"), Json("-"),
     [NoTag EXCEPT !.mapstructure = "host", !.json = "alias,omitempty"],
     [NoTag EXCEPT !.mapstructure = "host", !.description = "The host"],
     [NoTag EXCEPT !.description = "The host", !.yaml = "host name"],
     [NoTag EXCEPT !.yaml = "host name"],
     [NoTag EXCEPT !.yaml = "host,omitempty", !.json = "alias"]}

\* The names of the fields the generator is probed with: one exported, one not.
FieldNames == {"Host", "host"}

\* A configuration with one field under test between two plain ones.
ProbeConfig(field) ==
    StructOf("ProbeConfig", "main",
             <<Field("Before", Mapstructure("before"), StringType),
               field,
               Field("After", Mapstructure("after,omitempty"), IntType)>>)

\* The embedded fields the generator is probed with.
EmbeddedFields ==
    {Embedded("ClientSettings", Mapstructure(",squash"), ClientSettings),
     Embedded("ClientSettings", NoTag, PtrTo(ClientSettings)),
     Embedded("ClientSettings", Mapstructure("client"), ClientSettings),
     Embedded("TimeoutSettings", Mapstructure(",squash"), TimeoutSettings),
     Embedded("Config", Mapstructure(",squash"), ComponentConfig),
     Embedded("Duration", NoTag, DurationType),
     Embedded("clientSettings", NoTag,
              StructOf("clientSettings", "main",
                       <<Field("Endpoint", Mapstructure("endpoint"), StringType)>>)),
     Embedded("Node", NoTag, Named("Node"))}

\* The configurations handed to generateJSONSchema: values and pointers.
Configs ==
    LET types == {ProbeConfig(Field(n, tag, type)) :
                     n \in FieldNames, tag \in FieldTags, type \in FieldTypes}
                 \cup {ProbeConfig(e) : e \in EmbeddedFields}
                 \cup {TestReceiverConfig, DatabaseConfig, ExporterConfig,
                       AllOptionalConfig, SameNameConfig, MixinClashConfig,
                       StructOf("Empty", "main", <<>>),
                       Named("Node"), Named("Tree"), Named("Graph"), Named("Ping"),
                       ProbeConfig(Field("Root", Mapstructure("root"), Named("Tree"))),
                       ProbeConfig(Field("Roots", NoTag, SliceOf(Named("Node"))))}
    IN  types \cup {PtrTo(TestReceiverConfig), PtrTo(Named("Node"))}

----------------------------------------------------------------------------
(* The generator as a state machine: one configuration after the other      *)

GenInit ==
    /\ store = EmbeddedFS({}, CleanListing)
    /\ cache = NoCache
    /\ heap = <<>>
    /\ ret = NoCall
    /\ firstGet = NoFirstGet
    /\ pc = [g \in Goroutines |-> "idle"]
    /\ local = [g \in Goroutines |-> NoLocal]
    /\ mapWriter = 0
    /\ crashed = FALSE

\* What the process is left with after generateJSONSchema was called: its
\* result, or the end of the process.
Outcome(config, r) ==
    IF r.overflow
    THEN /\ crashed' = TRUE
         /\ ret' = [op |-> "generate", config |-> config, schema |-> JNull, err |-> ""]
    ELSE /\ crashed' = FALSE
         /\ ret' = [op |-> "generate", config |-> config, schema |-> r.schema,
                    err |-> r.err]

\* A call of generateJSONSchema: it returns, or the process ends in it.
Generate(config) ==
    /\ ~crashed
    /\ ret = NoCall
    /\ Outcome(config, generateJSONSchema(config))
    /\ UNCHANGED <<store, cache, heap, firstGet, pc, local, mapWriter>>

\* The caller takes the schema; the generator goes on to the next component.
Generated ==
    /\ ~crashed
    /\ Return

GenNext ==
    \/ \E config \in Configs : Generate(config)
    \/ Generated

GenSpec == GenInit /\ [][GenNext]_vars

----------------------------------------------------------------------------
(* Properties of the schema generator                                      *)

\* The types a type expression reaches: itself, and what its pointers,
\* elements, keys and fields reach. A set of type expressions, closed in at
\* most MaxDepth rounds for every configuration of the model.
RECURSIVE ReachFrom(_, _)
ReachFrom(types, rounds) ==
    LET next == types
                \cup {Resolve(t) : t \in types}
                \cup {t.Elem : t \in {x \in types : "Elem" \in DOMAIN x}}
                \cup {t.Key : t \in {x \in types : "Key" \in DOMAIN x}}
                \cup UNION {{t.Fields[i].Type : i \in 1..Len(t.Fields)} :
                              t \in {x \in types : "Fields" \in DOMAIN x}}
    IN  IF rounds = 0 \/ next = types THEN types ELSE ReachFrom(next, rounds - 1)

\* The declared types a type expression reaches that reach themselves.
CyclicTypes(config) ==
    {name \in DOMAIN Declared :
        /\ Named(name) \in ReachFrom({config}, 2 * MaxDepth)
        /\ Named(name) \in ReachFrom({t.Type : t \in Range(Declared[name].Fields)},
                                     2 * MaxDepth)}

\* C11: derive terminates on every type graph, also on one in which a record
\* reaches itself through a pointer, a sequence or a map: every call returns,
\* without error, an object schema.
C11_DeriveTerminates ==
    ret.op = "generate" =>
        /\ ~crashed
        /\ ret.err = ""
        /\ ret.schema.k = "object"

\* derive was called on a type graph in which a record reaches itself.
C11_Witness ==
    /\ ret.op = "generate"
    /\ CyclicTypes(ret.config) # {}

\* The struct type generateJSONSchema analyzes for a configuration.
ConfigStruct(config) ==
    IF Resolve(config).Kind = "ptr" THEN Resolve(Resolve(config).Elem)
    ELSE Resolve(config)

\* The struct an embedded field flattens, through at most one pointer.
MixinStruct(field) ==
    IF Resolve(field.Type).Kind = "ptr" THEN Resolve(Resolve(field.Type).Elem)
    ELSE Resolve(field.Type)

\* The fields a composite shows at its own level: its exported named fields
\* and, for each exported embedded record, the fields that record shows.
RECURSIVE VisibleFields(_)
VisibleFields(structType) ==
    UNION {IF ~IsExported(structType.Fields[i]) THEN {}
           ELSE IF ~structType.Fields[i].Anonymous THEN {structType.Fields[i]}
           ELSE IF MixinStruct(structType.Fields[i]).Kind = "struct"
           THEN VisibleFields(MixinStruct(structType.Fields[i]))
           ELSE {} :
           i \in 1..Len(structType.Fields)}

RequiredOf(node) ==
    IF "required" \in DOMAIN node.m
    THEN {node.m["required"].a[i].s : i \in DOMAIN node.m["required"].a}
    ELSE {}

\* The keys of the properties of a schema node.
PropertiesIn(node) ==
    IF "properties" \in DOMAIN node.m THEN DOMAIN node.m["properties"].m ELSE {}

\* A field whose type, directly or behind a pointer, is an optional wrapper:
\* a struct of the configoptional package whose name starts with Optional.
WrapperField(field) ==
    /\ MixinStruct(field).Kind = "struct"
    /\ Len(MixinStruct(field).Name) >= 8
    /\ SubSeq(MixinStruct(field).Name, 1, 8) = "Optional"
    /\ MixinStruct(field).PkgPath = ConfigOptionalPkg

\* C13: a field whose type is an optional wrapper is never in the required
\* list of its parent, whatever its tags; the required sub-fields of its
\* payload are listed in the field's own node, not in the parent's.
C13_WrapperNeverRequired ==
    (ret.op = "generate" /\ ~crashed) =>
        /\ \A f \in VisibleFields(ConfigStruct(ret.config)) :
              WrapperField(f) => getFieldName(f) \notin RequiredOf(ret.schema)
        /\ RequiredOf(ret.schema)
              \subseteq {getFieldName(f) :
                            f \in {g \in VisibleFields(ConfigStruct(ret.config)) :
                                      ~WrapperField(g)}}

\* A wrapper field that is no pointer and carries no omitempty, with a payload
\* that has required sub-fields of its own, was derived.
C13_Witness ==
    /\ ret.op = "generate"
    /\ ~crashed
    /\ \E f \in VisibleFields(ConfigStruct(ret.config)) :
          /\ WrapperField(f)
          /\ Resolve(f.Type).Kind = "struct"
          /\ f.Tag = Mapstructure("host")
          /\ getFieldName(f) \in PropertiesIn(ret.schema)
          /\ "endpoint" \in RequiredOf(ret.schema.m["properties"].m[getFieldName(f)])

\* The field carries the "omit if empty" marker: the text omitempty occurs in
\* its mapstructure tag or in its json tag.
OmitEmptyMarker(field) ==
    \E tag \in {field.Tag.mapstructure, field.Tag.json} :
        \E i \in 1..Len(tag) :
            i + 8 <= Len(tag) /\ SubSeq(tag, i, i + 8) = "omitempty"

\* The field is behind a pointer.
PointerField(field) == Resolve(field.Type).Kind = "ptr"

\* The fields of the root that have a property of their own.
ListedFields(config) ==
    {f \in VisibleFields(ConfigStruct(config)) : getFieldName(f) \notin {"", "-"}}

\* The field with its pointer taken away.
Pointee(field) == [field EXCEPT !.Type = Resolve(field.Type).Elem]

DurationNode ==
    JObj([type |-> JStr("string"),
          pattern |-> JStr("^[0-9]+(ns|us|µs|ms|s|m|h)$"),
          description |-> JStr("Duration string (e.g., '1s', '5m', '1h')")])

\* The type with one pointer taken away.
Deref(type) ==
    IF Resolve(type).Kind = "ptr" THEN Resolve(Resolve(type).Elem) ELSE Resolve(type)

\* The fields of a struct type by the name of a field.
FieldsNamed(structType, name) ==
    {structType.Fields[i] :
        i \in {j \in 1..Len(structType.Fields) : structType.Fields[j].Name = name}}

\* Walking a type and the node derived for it side by side: wherever a
\* duration is reached as a field, as an element, as a map value or as the
\* payload of a wrapper, the node there is the duration node.
RECURSIVE DurationsDerived(_, _)
DurationsDerived(type, node) ==
    LET t == Deref(type)
    IN  IF t.Name = "Duration" /\ t.PkgPath = "time"
        THEN node = DurationNode
        ELSE IF t.Kind \in {"slice", "array"}
        THEN "items" \in DOMAIN node.m => DurationsDerived(t.Elem, node.m["items"])
        ELSE IF t.Kind = "map"
        THEN ("additionalProperties" \in DOMAIN node.m
                 /\ node.m["additionalProperties"].k = "object")
                => DurationsDerived(t.Elem, node.m["additionalProperties"])
        ELSE IF t.Kind = "struct" /\ FieldsNamed(t, "value") # {}
        THEN \A f \in FieldsNamed(t, "value") : DurationsDerived(f.Type, node)
        ELSE IF t.Kind = "struct"
        THEN \A f \in VisibleFields(t) :
                getFieldName(f) \in PropertiesIn(node) =>
                    DurationsDerived(f.Type, node.m["properties"].m[getFieldName(f)])
        ELSE TRUE

CompositeFields(wrapper) ==
    {i \in 1..Len(wrapper.Fields) :
        /\ \E c \in 1..Len(UpperCase) :
              CharAt(UpperCase, c) = CharAt(wrapper.Fields[i].Name, 1)
        /\ Deref(wrapper.Fields[i].Type).Kind = "struct"
        /\ Len(Deref(wrapper.Fields[i].Type).Fields) >= 1}

\* The payload types of a wrapper: that of the field named value if there is
\* one, else that of the first exported field holding a composite with
\* fields; none when there is neither.
PayloadTypes(wrapper) ==
    IF FieldsNamed(wrapper, "value") # {}
    THEN {Deref(f.Type) : f \in FieldsNamed(wrapper, "value")}
    ELSE {Deref(wrapper.Fields[i].Type) :
             i \in {j \in CompositeFields(wrapper) :
                       \A k \in CompositeFields(wrapper) : j <= k}}

C17_RootDocument ==
    (ret.op = "generate" /\ ~crashed) =>
        /\ ret.schema.k = "object"
        /\ {"$schema", "type", "title", "properties"} \subseteq DOMAIN ret.schema.m
        /\ DOMAIN ret.schema.m
              \subseteq {"$schema", "type", "title", "properties", "required"}
        /\ ret.schema.m["$schema"] = JStr("https://json-schema.org/draft/2020-12/schema")
        /\ ret.schema.m["type"] = JStr("object")
        /\ ret.schema.m["title"]
              = JStr(ConfigStruct(ret.config).Name \o " Configuration")
        /\ ret.schema.m["properties"].k = "object"
        /\ "required" \in DOMAIN ret.schema.m
              <=> \E f \in ListedFields(ret.config) :
                     ~PointerField(f) /\ ~WrapperField(f) /\ ~OmitEmptyMarker(f)
        /\ "required" \in DOMAIN ret.schema.m =>
              /\ ret.schema.m["required"].k = "array"
              /\ Len(ret.schema.m["required"].a) > 0

\* The root document of a configuration type without fields: properties is
\* present and empty, required is absent.
C17_Witness ==
    /\ ret.op = "generate"
    /\ ~crashed
    /\ ConfigStruct(ret.config).Fields = <<>>
    /\ ret.schema.m["properties"] = JObj(NoMembers)
    /\ "required" \notin DOMAIN ret.schema.m

\* The name a tag gives: its text before the first comma.
TagName(tag) ==
    IF Index(tag, ",") = 0 THEN tag ELSE SubSeq(tag, 1, Index(tag, ",") - 1)

\* The external name of a field as the naming rule states it: the name of the
\* mapstructure tag if non-empty, else the name of the json tag if non-empty,
\* else the lower-cased field name.
ExternalName(field) ==
    IF TagName(field.Tag.mapstructure) # "" THEN TagName(field.Tag.mapstructure)
    ELSE IF TagName(field.Tag.json) # "" THEN TagName(field.Tag.json)
    ELSE ToLower(field.Name)

\* C19: the keys of the root's properties are the external names of the
\* visible fields, a field whose external name is "-" or empty, from either
\* tag, being left out of properties and of required.
C19_ExternalNames ==
    (ret.op = "generate" /\ ~crashed /\ ret.err = "") =>
        LET names == {ExternalName(f) : f \in VisibleFields(ConfigStruct(ret.config))}
                        \ {"", "-"}
        IN  /\ PropertiesIn(ret.schema) = names
            /\ RequiredOf(ret.schema) \subseteq names

\* derive returned for a configuration whose field Host carries the json name
\* "-" and no mapstructure name: the field is a property, and a required one.
C19_Witness ==
    /\ ret.op = "generate"
    /\ ret.config = ProbeConfig(Field("Host", Json("-"), StringType))
    /\ ~crashed
    /\ ExternalName(Field("Host", Json("-"), StringType)) = "-"
    /\ "host" \in PropertiesIn(ret.schema)
    /\ "host" \in RequiredOf(ret.schema)

\* The fields of a struct with every exported embedded field replaced by the
\* fields of the struct it embeds, through at most one pointer and mixins of
\* mixins included, and dropped when it embeds no struct.
RECURSIVE InlineFields(_)
InlineFields(fields) ==
    IF fields = <<>> THEN <<>>
    ELSE (IF ~(Head(fields).Anonymous /\ IsExported(Head(fields)))
          THEN <<Head(fields)>>
          ELSE IF MixinStruct(Head(fields)).Kind = "struct"
          THEN InlineFields(MixinStruct(Head(fields)).Fields)
          ELSE <<>>)
         \o InlineFields(Tail(fields))

\* The exported embedded fields a struct declares.
Mixins(structType) ==
    {structType.Fields[i] : i \in {j \in 1..Len(structType.Fields) :
        structType.Fields[j].Anonymous /\ IsExported(structType.Fields[j])}}

\* C20: the schema of a composite with mixins is the schema of the composite
\* that declares the mixins' visible fields in their place: the fields are
\* keys of the parent's properties, the required ones are in the parent's
\* required, no key stands for the mixin itself, and an embedded field that is
\* no record adds nothing.
C20_MixinIsFlattened ==
    (ret.op = "generate" /\ CyclicTypes(ret.config) = {}) =>
        LET struct == ConfigStruct(ret.config)
            inlined == generateJSONSchema(
                          StructOf(struct.Name, struct.PkgPath,
                                   InlineFields(struct.Fields)))
            declared == {ExternalName(f) : f \in VisibleFields(struct)}
        IN  /\ ~crashed
            /\ ret.err = inlined.err
            /\ ret.schema = inlined.schema
            /\ \A mixin \in Mixins(struct) :
                  {ToLower(mixin.Name), TagName(mixin.Tag.mapstructure),
                   TagName(mixin.Tag.json)} \cap PropertiesIn(ret.schema)
                     \subseteq declared

\* derive returned for a configuration that embeds, under a tag with a name, a
\* record with a mixin of its own: the fields of both are properties of the
\* root and the required ones are required at the root.
C20_Witness ==
    /\ ret.op = "generate"
    /\ ret.config = ProbeConfig(Embedded("ClientSettings", Mapstructure("client"),
                                         ClientSettings))
    /\ ~crashed
    /\ PropertiesIn(ret.schema) = {"before", "endpoint", "compression", "timeout", "after"}
    /\ RequiredOf(ret.schema) = {"before", "endpoint", "timeout"}

\* Walking a type and the node derived for it side by side: wherever a map
\* with string keys is reached as a field, as an element, as a map value or as
\* the payload of a wrapper, the node there is an object whose
\* additionalProperties is the schema derived for the type of the values.
RECURSIVE MapsDerived(_, _)
MapsDerived(type, node) ==
    LET t == Deref(type)
    IN  IF t.Name = "Duration" /\ t.PkgPath = "time" THEN TRUE
        ELSE IF t.Kind \in {"slice", "array"}
        THEN "items" \in DOMAIN node.m => MapsDerived(t.Elem, node.m["items"])
        ELSE IF t.Kind = "map" /\ Resolve(t.Key).Kind = "string"
        THEN /\ node.m["type"] = JStr("object")
             /\ "additionalProperties" \in DOMAIN node.m
             /\ node.m["additionalProperties"] = generateTypeSchema(t.Elem, 1).schema
             /\ MapsDerived(t.Elem, node.m["additionalProperties"])
        ELSE IF t.Kind = "struct" /\ FieldsNamed(t, "value") # {}
        THEN \A f \in FieldsNamed(t, "value") : MapsDerived(f.Type, node)
        ELSE IF t.Kind = "struct"
        THEN \A f \in VisibleFields(t) :
                getFieldName(f) \in PropertiesIn(node) =>
                    MapsDerived(f.Type, node.m["properties"].m[getFieldName(f)])
        ELSE TRUE

\* C21: a map with string keys derives to type object with additionalProperties
\* the derived schema of its value type, wherever the map occurs: as a field,
\* as a sequence element, as a map value, as the payload of a wrapper.
C21_MapValuesDerived ==
    (ret.op = "generate" /\ ~crashed /\ ret.err = "") =>
        MapsDerived(ConfigStruct(ret.config), ret.schema)

\* derive returned for a field that is a sequence of maps from string to
\* duration: the element node has additionalProperties true, not the duration
\* node.
C21_Witness ==
    /\ ret.op = "generate"
    /\ ~crashed
    /\ ret.config = ProbeConfig(Field("Host", Mapstructure("host"),
                                      SliceOf(MapOf(StringType, DurationType))))
    /\ ret.schema.m["properties"].m["host"].m["items"]
          = JObj([type |-> JStr("object"), additionalProperties |-> JBool(TRUE)])
    /\ generateTypeSchema(DurationType, 1).schema = DurationNode

\* The kinds the generator has a case for.
RecognizedKinds ==
    {"string", "bool", "slice", "array", "map", "struct", "interface"}
       \cup IntKinds \cup FloatKinds

\* The generic schema: an object with open additional properties.
OpenObject(node) ==
    /\ node.k = "object"
    /\ DOMAIN node.m \ {"description"} = {"type", "additionalProperties"}
    /\ node.m["type"] = JStr("object")
    /\ node.m["additionalProperties"] = JBool(TRUE)

\* C22: derive returns no error for a field of a kind it has no case for (a
\* channel, a function, a pointer to a pointer), and the field, or the element
\* of a sequence of that kind, derives to type object with
\* additionalProperties true.
C22_UnknownKindIsOpenObject ==
    (ret.op = "generate" /\ ~crashed) =>
        /\ ret.err = ""
        /\ \A f \in ListedFields(ret.config) :
              /\ Deref(f.Type).Kind \notin RecognizedKinds
                    => OpenObject(ret.schema.m["properties"].m[getFieldName(f)])
              /\ (Deref(f.Type).Kind = "slice"
                     /\ Deref(Deref(f.Type).Elem).Kind \notin RecognizedKinds)
                    => OpenObject(ret.schema.m["properties"].m[getFieldName(f)].m["items"])

\* derive returned without error for a field that is a channel: its node is
\* type object and nothing else.
C22_Witness ==
    /\ ret.op = "generate"
    /\ ~crashed
    /\ ret.err = ""
    /\ ret.config = ProbeConfig(Field("Host", Mapstructure("host"), ChanOf(IntType)))
    /\ ret.schema.m["properties"].m["host"] = JObj([type |-> JStr("object")])

\* The descriptions the tags of a field yield, in the order of their
\* sources: the description tag, then a yaml tag value without a comma.
TagDescriptions(field) ==
    (IF field.Tag.description # "" THEN <<field.Tag.description>> ELSE <<>>)
    \o (IF field.Tag.yaml # "" /\ \A i \in 1..Len(field.Tag.yaml) :
                                     CharAt(field.Tag.yaml, i) # ","
        THEN <<field.Tag.yaml>> ELSE <<>>)

\* The description of a node, if it has one.
DescriptionsOf(node) ==
    IF "description" \in DOMAIN node.m THEN {node.m["description"]} ELSE {}

\* C23: the description of a field is the one of the first source that yields
\* one, the description tag before the yaml tag value; a yaml tag value with a
\* comma is never the description. (No documentation string is among the
\* sources the generator reads.)
C23_DescriptionPriority ==
    (ret.op = "generate" /\ ~crashed /\ ret.err = "") =>
        \A f \in ListedFields(ret.config) :
            LET node == ret.schema.m["properties"].m[getFieldName(f)]
            IN  /\ TagDescriptions(f) # <<>>
                      => DescriptionsOf(node) = {JStr(Head(TagDescriptions(f)))}
                /\ (\E i \in 1..Len(f.Tag.yaml) : CharAt(f.Tag.yaml, i) = ",")
                      => JStr(f.Tag.yaml) \notin DescriptionsOf(node)

\* derive returned for a wrapper field that carries a description tag: the
\* node of the field has no description.
C23_Witness ==
    /\ ret.op = "generate"
    /\ ~crashed
    /\ ret.config = ProbeConfig(Field("Host",
                       [NoTag EXCEPT !.mapstructure = "host", !.description = "The host"],
                       OptionalOf("confighttp.ServerConfig", ServerConfig)))
    /\ TagDescriptions(ret.config.Fields[2]) = <<"The host">>
    /\ DescriptionsOf(ret.schema.m["properties"].m["host"]) = {}

\* A schema node and every node below it: the properties, the items and an
\* additionalProperties that is a node.
RECURSIVE NodesOf(_)
NodesOf(node) ==
    IF node.k # "object" THEN {}
    ELSE {node} \cup UNION {NodesOf(node.m[key]) :
                               key \in DOMAIN node.m \cap {"items", "additionalProperties"}}
                \cup UNION {NodesOf(node.m["properties"].m[name]) :
                               name \in PropertiesIn(node)}

\* C28: at every object node of a derived schema, required lists no name twice
\* and lists only keys of the node's properties.
C28_RequiredIsSetOfProperties ==
    (ret.op = "generate" /\ ~crashed /\ ret.err = "") =>
        \A node \in NodesOf(ret.schema) :
            "required" \in DOMAIN node.m =>
                /\ \A i, j \in DOMAIN node.m["required"].a :
                      node.m["required"].a[i] = node.m["required"].a[j] => i = j
                /\ RequiredOf(node) \subseteq PropertiesIn(node)

\* derive returned for a composite in which a field has the external name of
\* a field of its mixin: the name is listed twice.
C28_Witness ==
    /\ ret.op = "generate"
    /\ ~crashed
    /\ ret.config = MixinClashConfig
    /\ ret.schema.m["properties"].m["client"].m["required"]
          = JArr(<<JStr("endpoint"), JStr("timeout"), JStr("endpoint")>>)

\* The node derived for a direct field of the given type, without a
\* description from a tag.
NodeOfField(type) ==
    generateJSONSchema(ProbeConfig(Field("Host", Mapstructure("host"), type)))
        .schema.m["properties"].m["host"]

\* The configurations with one direct non-pointer field under test that is
\* listed under its own name and has no description from a tag.
DirectProbe(config) ==
    /\ config.Kind = "struct"
    /\ config.Name = "ProbeConfig"
    /\ CyclicTypes(config) = {}
    /\ ~config.Fields[2].Anonymous
    /\ config.Fields[2] \in ListedFields(config)
    /\ getFieldName(config.Fields[2]) \notin {"before", "after"}
    /\ config.Fields[2].Type.Kind # "ptr"
    /\ TagDescriptions(config.Fields[2]) = <<>>

\* C30: the node derived for a type does not depend on where the type occurs:
\* the node of a direct non-pointer field of type T is the node derived for T
\* as the element of a sequence, as the value of a string-keyed map and as the
\* payload of an optional wrapper.
C30_PositionIndependent ==
    (ret.op = "generate" /\ ~crashed /\ ret.err = "" /\ DirectProbe(ret.config)) =>
        LET T == ret.config.Fields[2].Type
            node == ret.schema.m["properties"].m[getFieldName(ret.config.Fields[2])]
        IN  /\ NodeOfField(SliceOf(T)).m["items"] = node
            /\ NodeOfField(MapOf(StringType, T)).m["additionalProperties"] = node
            /\ NodeOfField(OptionalOf("T", T)) = node

\* derive returned for a direct field that is a string-keyed map of strings:
\* its node gives the schema of the values, the node of the same type as a
\* sequence element does not.
C30_Witness ==
    /\ ret.op = "generate"
    /\ ~crashed
    /\ DirectProbe(ret.config)
    /\ ret.config.Fields[2].Type = MapOf(StringType, StringType)
    /\ ret.schema.m["properties"].m[getFieldName(ret.config.Fields[2])]
          .m["additionalProperties"] = TypeNode("string")
    /\ NodeOfField(SliceOf(MapOf(StringType, StringType))).m["items"]
          .m["additionalProperties"] = JBool(TRUE)

----------------------------------------------------------------------------
(* Properties of the serialized schema                                     *)

\* What a get answers in the state a getJSON has left.
GetAfter ==
    GetComponentSchema(store, cache, heap, ret.type, ret.name, ret.version)

\* C18: the bytes getJSON returns are JSON text that parses, without error, to
\* a document equal to the schema tree of the get for the same arguments; when
\* the get fails getJSON returns no bytes and the error of the get.
C18_JSONRoundTrip ==
    ret.op = "getJSON" =>
        IF ret.err = ""
        THEN /\ ~ret.nil
             /\ GetAfter.err = ""
             /\ GetAfter.schema = ret.got
             /\ Unmarshal(ret.bytes).err = ""
             /\ Unmarshal(ret.bytes).value = GetAfter.heap[GetAfter.schema].Schema
        ELSE /\ ret.nil
             /\ GetAfter.err = ret.err

\* A getJSON that has written a schema tree with nested objects and an array.
C18_Witness ==
    /\ ret.op = "getJSON"
    /\ ret.err = ""
    /\ ret.bytes.bytes = "text"
    /\ \E i \in 1..Len(ret.bytes.text) : ret.bytes.text[i].t = "["
    /\ \E i \in 2..Len(ret.bytes.text) :
          ret.bytes.text[i].t = "{" /\ ret.bytes.text[i - 1].t = ":"
    /\ Unmarshal(ret.bytes).value = heap[ret.got].Schema

----------------------------------------------------------------------------
(* Properties of the cache                                                 *)

\* The key a call of get, getJSON, validate or deprecatedFields was made for.
RequestedKeys(call) ==
    IF call.op \in GetOps
    THEN {CacheKey(call.type, call.name, call.version)}
    ELSE {}

\* C24: no operation changes a ComponentSchema that exists or the entry of a
\* key that is cached: every step keeps every object of the heap and every
\* entry of the cache as they were, and the only key a step adds to the cache
\* is the key the call was made for.
C24_ExistingEntriesKept ==
    [][/\ Len(heap') >= Len(heap)
       /\ \A i \in 1..Len(heap) : heap'[i] = heap[i]
       /\ \A k \in DOMAIN cache : k \in DOMAIN cache' /\ cache'[k] = cache[k]
       /\ (DOMAIN cache' \ DOMAIN cache) \subseteq RequestedKeys(ret')]_vars

\* validate loaded and cached its schema in a manager whose cache already
\* held the entry of another key.
C24_Witness ==
    /\ ret.op = "validate"
    /\ ret.loaded
    /\ ret.got = 2
    /\ Cardinality(DOMAIN cache) = 2
    /\ cache[CacheKey(ret.type, ret.name, ret.version)] = 2

\* The key of a ComponentSchema object.
IdentityOf(schema) == <<schema.Type, schema.Name, schema.Version>>

\* C25: a key goes from unloaded to cached and never back. Every key a call
\* has succeeded for is cached; a call that read the store is the first
\* successful call for its key; and no two objects of the manager were loaded
\* for the same key.
C25_LoadedAtMostOnce ==
    /\ \A k \in DOMAIN firstGet : CacheKey(k[1], k[2], k[3]) \in DOMAIN cache
    /\ (ret.op \in GetOps /\ ret.loaded) =>
          /\ ret.got = Len(heap)
          /\ firstGet[<<ret.type, ret.name, ret.version>>] = ret.got
    /\ \A i, j \in 1..Len(heap) :
          IdentityOf(heap[i]) = IdentityOf(heap[j]) => i = j

\* getJSON for the key of the first object, answered from the cache after
\* another key was loaded.
C25_Witness ==
    /\ ret.op = "getJSON"
    /\ ret.err = ""
    /\ ~ret.loaded
    /\ ret.got = 1
    /\ Len(heap) = 2

\* C27: a get that fails leaves the cache as it was and records nothing for
\* its key: the step of a failing call changes neither cache nor heap, no
\* entry of the cache is nil, and the key of a call that failed is not cached,
\* so that the next call for it reads the store again and fails with the same
\* error while the store is the same.
C27_FailedGetLeavesCache ==
    [][/\ (ret'.op \in GetOps /\ ret.op = "none" /\ ret'.got = NilRef) =>
             /\ ret'.err # ""
             /\ cache' = cache
             /\ heap' = heap
             /\ RequestedKeys(ret') \cap DOMAIN cache' = {}
             /\ ret'.err = loadSchemaFromFile(store', ret'.type, ret'.name,
                                              ret'.version).err
                   \/ ret'.op \in {"validate", "deprecatedFields"}
       /\ \A k \in DOMAIN cache' : cache'[k] # NilRef]_vars

\* get failed on an artifact that does not parse, in a manager that holds
\* the entry of another key.
C27_Witness ==
    /\ ret.op = "get"
    /\ ret.got = NilRef
    /\ HasArtifact(ret.type, ret.name, ret.version)
    /\ Cardinality(DOMAIN cache) = 1

\* C26: every successful get returns a ComponentSchema whose Name, Type and
\* Version are the name, category and version it was called with.
C26_ReturnedIdentity ==
    (ret.op = "get" /\ ret.got # NilRef) =>
        IdentityOf(heap[ret.got]) = <<ret.type, ret.name, ret.version>>

\* get was answered from the cache with the object of another key: the two
\* keys are written the same way.
C26_Witness ==
    /\ ret.op = "get"
    /\ ret.got # NilRef
    /\ ~ret.loaded
    /\ heap[ret.got].Name = "otlp_v2"
    /\ ret.name = "v2"

\* The names list returned under a category.
ListedUnder(components, componentType) ==
    IF componentType \in DOMAIN components
    THEN Range(components[componentType])
    ELSE {}

\* C29: list and get agree on the store. get finds an artifact for every
\* pair list returned, and every key of the listed version that get loads is
\* among the pairs list returned.
C29_ListAndGetAgree ==
    (ret.op = "list" /\ ret.err = "") =>
        /\ \A t \in DOMAIN ret.components : \A n \in Range(ret.components[t]) :
              loadSchemaFromFile(store, t, n, ret.version).err # NotFoundError(t, n)
        /\ \A r \in Requests :
              (r[3] = ret.version /\ loadSchemaFromFile(store, r[1], r[2], r[3]).err = "")
                  => r[2] \in ListedUnder(ret.components, r[1])

\* list returned the artifacts of a version whose directory also holds
\* widget_otlp.json, a schema get loads for the category widget.
C29_Witness ==
    /\ ret.op = "list"
    /\ ret.err = ""
    /\ "otlp_v2" \in ListedUnder(ret.components, "exporter")
    /\ loadSchemaFromFile(store, "widget", "otlp", ret.version).err = ""
    /\ "otlp" \notin ListedUnder(ret.components, "widget")

====
